---- MODULE Spec2Model ----
(***************************************************************************)
(* The autonomous agent engine of dweepbot (src/agent.py), its planner     *)
(* (src/planner.py) and the tool registry's execute path (src/base.py).    *)
(*                                                                         *)
(* One agent object is modelled.  run() is an async generator: every       *)
(* action below is the code between two of its suspension points (a yield  *)
(* of an update, or an await of the LLM / of a tool).  pause() and the     *)
(* clock may act while run() is suspended.                                 *)
(*                                                                         *)
(* Three facts of the source shape the behaviour and are modelled as the   *)
(* Python interpreter executes them:                                       *)
(*  - _handle_replanning, _handle_completion, _handle_stopped,             *)
(*    _handle_failure and _finalize_execution contain `yield`, so they are *)
(*    async generator functions; run() applies `await` to the generator    *)
(*    object they return, which raises TypeError before their body runs;   *)
(*  - planner.py uses datetime.now() without importing datetime, so        *)
(*    create_plan raises NameError after a plan was parsed and returns the *)
(*    fallback plan from its except clause;                                *)
(*  - the while guard of run() (_should_stop_execution) tests              *)
(*    iteration >= max_iterations and elapsed > max_time without the       *)
(*    `max > 0` test that _check_all_limits makes.                         *)
(***************************************************************************)
EXTENDS Integers, Sequences, FiniteSets, TLC

\* ------------------------------------------------------------------ bounds
MaxRuns == 2
MaxClock == 2
MaxReplans == 1

\* ------------------------------------------------------ program constants
max_consecutive_errors == 3
observation_history_size == 10
checkpoint_interval == 5
llm_cache_max == 50
llm_cache_evict == 10
registry_cache_max_size == 1000

\* ------------------------------------------------------------ input sets
None == "None"
Modes == {"autonomous", "bite_sized"}
Tasks == {"read a", "write b"}
ToolOutputs == {"a", "b"}
\* what an LLM or tool call that succeeds costs, and what the planning call costs
StepCosts == {9}
PlannerCosts == {11}
\* registration order of the shared registry (dict order of ToolRegistry._tools)
RegisteredTools == <<"read_file", "write_file">>
Capabilities == [read_file |-> {"read_only"}, write_file |-> {"writable"}]

\* Context.limits; a value <= 0 is the spec's "unlimited"
LimitConfigs ==
    {[max_iterations |-> 0, max_cost |-> 10, max_tool_calls |-> 1,
      max_time_seconds |-> 1, max_cache_size |-> 1, tool_cache_ttl |-> 1],
     [max_iterations |-> 2, max_cost |-> 10, max_tool_calls |-> 1,
      max_time_seconds |-> 1, max_cache_size |-> 1, tool_cache_ttl |-> 1],
     [max_iterations |-> 6, max_cost |-> 0, max_tool_calls |-> 0,
      max_time_seconds |-> 1, max_cache_size |-> 1, tool_cache_ttl |-> 1],
     [max_iterations |-> 6, max_cost |-> 10, max_tool_calls |-> 1,
      max_time_seconds |-> 0, max_cache_size |-> 1, tool_cache_ttl |-> 1]}
\* AutonomousAgent.config: the defaults, and an observation history of two
DefaultConfigs == [observation_history_size : {observation_history_size}]
AgentConfigs == [observation_history_size : {2, observation_history_size}]
BiteLimitConfigs ==
    [max_iterations : {6}, max_cost : {10}, max_tool_calls : {1},
     max_time_seconds : {1}, max_cache_size : {0, 1, 2}, tool_cache_ttl : {1}]
\* ToolRegistry._cache_config["ttl"]
RegistryTtls == {2}

VARIABLES
    config,             \* AutonomousAgent.config
    mode,               \* AutonomousAgent.mode
    limits,             \* context.limits
    phase,              \* state.phase
    iteration,          \* state.iteration
    total_cost,         \* state.total_cost
    total_tool_calls,   \* state.total_tool_calls
    consecutive_errors, \* state.consecutive_errors
    observations,       \* state.observations
    errors,             \* number of entries of state.errors
    plan,               \* state.plan
    tool_cache,         \* AutonomousAgent.tool_cache, in dict order
    llm_cache,          \* AutonomousAgent.llm_cache, in dict order
    reg_cache,          \* ToolRegistry._cache, in dict order
    reg_ttl,            \* ToolRegistry._cache_config["ttl"]
    initialized_tools,  \* ToolRegistry._initialized_tools
    last_checkpoint,    \* iteration of AutonomousAgent.last_checkpoint, -1 for None
    now,                \* time.time() - start_time
    pc,                 \* where run() is suspended
    task,               \* state.task
    pending,            \* warnings of the current budget check not yet yielded
    cur,                \* the ExecutionResult being handled
    updates,            \* the updates run() has yielded in the current run
    runs,               \* number of run() calls so far
    outcome,            \* how the last run() ended
    exit_reason,        \* why the while loop of the current run was left
    planner_cost,       \* cost of the LLM usage create_plan's call reported
    cost_at_start,      \* total_cost when the current run started
    execs,              \* the _execute_tool_step calls made so far
    replans,            \* number of planner.replan calls so far
    resumed             \* the current run() was started by resume()

\* the state of a Planner called on its own
VARIABLES
    planner_pc,         \* "off", or where the call of create_plan is
    planner_goal,       \* the goal argument of create_plan
    llm_response,       \* what llm.create_completion answers to the planning prompt
    created             \* what create_plan returned

\* the state of the file tools called on their own
VARIABLES
    file_pc,            \* "off", or where the call of a file tool is
    file_call,          \* the tool called and its path argument
    file_result,        \* the ToolResult returned
    files,              \* the regular files of the file system
    touched             \* the paths the call has read, written, listed or deleted

\* the state of an AgentManager
VARIABLES
    mgr_pc,             \* "off", or where coordinate_agents is
    mgr_call,           \* the arguments of coordinate_agents and the clock
    agents,             \* AgentManager.agents, in dict order
    sessions,           \* AgentManager.sessions, in dict order
    coordinator,        \* the coordinator agent of _run_agents_hierarchically
    delegated_results,  \* its list delegated_results
    mgr_outcome         \* what coordinate_agents returned or raised

\* the state of one ToolRegistry.execute call that is timed
VARIABLES
    call_pc,            \* "off", or where the execute call is
    timed_call,         \* the registry used, the timeout, the tool's run time and outcome
    elapsed,            \* the time the call has been awaited
    timed_result        \* the ToolResult returned

\* the state of one ToolRegistry.execute call that is validated
VARIABLES
    val_pc,             \* "off", or where the execute call is
    val_call,           \* the tool's capabilities and the value of its path argument
    val_result,         \* the ToolResult returned
    invoked             \* the tool's execute was invoked

VARIABLES
    replan_pc,          \* "off", or where the call of replan is
    replan_plan,        \* the plan handed to replan, as it was at the call
    replan_data,        \* what the LLM answers to the replan prompt
    replanned           \* the plan replan returns

replan_vars == <<replan_pc, replan_plan, replan_data, replanned>>

VARIABLES
    cache_pc,           \* "off", or where the series of tool steps is
    cache_before        \* tool_cache as the latest tool step found it

cache_vars == <<cache_pc, cache_before>>

VARIABLES
    mem_pc,             \* "off", or where the run is
    mem_call,           \* the memory calls that raise, the step and what the LLM answers
    mem_result,         \* the ExecutionResult of the step
    mem_outcome         \* "running", or how the memory failure surfaced

memory_vars == <<mem_pc, mem_call, mem_result, mem_outcome>>

VARIABLES
    snap_pc,            \* "off", or where the save and the load are
    saved_agent,        \* the agent save_state is called on
    state_file,         \* the JSON document written to filepath
    loaded_agent        \* the agent load_state returns

snapshot_vars == <<snap_pc, saved_agent, state_file, loaded_agent>>

VARIABLES
    pool_pc,            \* "off", or "open" while an AgentManager takes calls
    pool_agents,        \* AgentManager.agents, in dict order
    pool_sessions,      \* AgentManager.sessions
    pool_clock,         \* int(time.time())
    stopped,            \* the keys of the agents whose phase is completed, failed or stopped
    registrations,      \* create_agent calls that returned, less the agents cleaned up
    creations           \* create_agent calls that returned

pool_vars == <<pool_pc, pool_agents, pool_sessions, pool_clock, stopped, registrations,
               creations>>

\* ToolRegistry shared by coroutines that initialize and execute tools
VARIABLES
    loop_owner,         \* the coroutine the event loop is running, or None
    init_pc,            \* per coroutine: "off", "idle", "running", "returned", "raised"
    init_stack,         \* per coroutine: its nested execute / initialize_tool calls
    init_ret,           \* per coroutine: what its last finished call returned
    tool_deps,          \* ToolRegistry._tool_dependencies
    initialized_order,  \* ToolRegistry._initialized_tools, in the order of the adds
    plugin_initialized, \* ToolPlugin._initialized of each registered tool
    hook_runs,          \* how often each tool's _on_initialize was called
    calls_made          \* calls issued so far

init_vars == <<loop_owner, init_pc, init_stack, init_ret, tool_deps, initialized_order,
               plugin_initialized, hook_runs, calls_made>>

\* the community edition's AutonomousAgent (src/dweepbot/core/agent.py)
VARIABLES
    ca_pc,              \* where run() is: "off", "created", "planning", "loop", ...
    ca_config,          \* AgentConfig: max_cost_usd, max_iterations
    all_subgoals,       \* AgentState.all_subgoals: the status of each subgoal
    total_cost_usd,     \* AgentState.total_cost_usd
    step_results,       \* AgentState.step_results: the success flag of each
    current_phase,      \* AgentState.current_phase
    emitted,            \* the types of the updates run() has yielded
    cost_updates        \* the total_cost of every cost_update yielded

community_vars == <<ca_pc, ca_config, all_subgoals, total_cost_usd, step_results,
                    current_phase, emitted, cost_updates>>

\* the community edition's ToolExecutor.execute_tool (src/dweepbot/core/executor.py)
VARIABLES
    executor_pc,        \* "off", "created", "try", "await", "handler", "returned", "raised"
    executor_call,      \* the tool name, and what the tool does when it is awaited
    tool_call,          \* the ToolCall being filled in
    start_time,         \* whether the local start_time has been assigned
    pending_exception   \* the exception on its way to an except clause

executor_vars == <<executor_pc, executor_call, tool_call, start_time, pending_exception>>

\* the community edition's ToolRegistry.execute_batch (src/dweepbot/tools/registry.py)
VARIABLES
    batch_pc,           \* "off", "created", "gathering", "returned"
    batch_calls,        \* the tool_calls argument: the tool name of each call
    max_parallel,       \* the max_parallel argument
    semaphore,          \* the value of the asyncio.Semaphore
    task_pc,            \* per call: "waiting", "running" (inside the semaphore), "done"
    task_result,        \* per call: what its task returned, or None
    completed_order,    \* the calls in the order their tasks finished
    batch_result        \* what execute_batch returned

batch_vars == <<batch_pc, batch_calls, max_parallel, semaphore, task_pc, task_result,
                completed_order, batch_result>>

\* the community edition's TaskPlanner.create_plan (src/dweepbot/core/planner.py)
VARIABLES
    taskplan_pc,        \* "off", "created", "returned"
    llm_plan,           \* what the planning call gave
    task_plan           \* the TaskPlan create_plan returned, or None

taskplan_vars == <<taskplan_pc, llm_plan, task_plan>>

\* the two tool caches under small maxima
VARIABLES
    size_pc,            \* "off" or "open"
    cache_limits,       \* max_cache_size of the agent, max_size of the registry
    agent_cache,        \* AutonomousAgent.tool_cache
    registry_cache,     \* ToolRegistry._cache
    cache_clock,        \* time.time()
    inserted_keys       \* the cache keys inserted so far

cachesize_vars == <<size_pc, cache_limits, agent_cache, registry_cache, cache_clock,
                    inserted_keys>>

timeout_vars == <<call_pc, timed_call, elapsed, timed_result>>
validation_vars == <<val_pc, val_call, val_result, invoked>>
planner_vars == <<planner_pc, planner_goal, llm_response, created>>
file_vars == <<file_pc, file_call, file_result, files, touched>>
manager_vars == <<mgr_pc, mgr_call, agents, sessions, coordinator, delegated_results,
                  mgr_outcome>>
aux == <<planner_vars, file_vars, manager_vars, timeout_vars, validation_vars,
        replan_vars,
        cache_vars,
        memory_vars,
        snapshot_vars,
        pool_vars,
        init_vars,
        community_vars,
        executor_vars,
        batch_vars,
        taskplan_vars,
        cachesize_vars>>

vars == <<aux, resumed, config, mode, limits, phase, iteration, total_cost, total_tool_calls,
          consecutive_errors, observations, errors, plan, tool_cache, llm_cache,
          reg_cache, reg_ttl, initialized_tools, last_checkpoint, now, pc, task,
          pending, cur, updates, runs, outcome, exit_reason, planner_cost,
          cost_at_start, execs, replans>>

\* ------------------------------------------------------------- sequences
Max(a, b) == IF a >= b THEN a ELSE b

Last(s) == s[Len(s)]

\* s[-n:]
Tail_n(s, n) == IF Len(s) <= n THEN s ELSE SubSeq(s, Len(s) - n + 1, Len(s))

\* s[:n]
Head_n(s, n) == IF Len(s) <= n THEN s ELSE SubSeq(s, 1, n)

\* s[n:]
Drop_n(s, n) == IF Len(s) <= n THEN <<>> ELSE SubSeq(s, n + 1, Len(s))

RECURSIVE Filter(_, _)
\* s without the entries whose key is in ks
Filter(s, ks) ==
    IF s = <<>> THEN <<>>
    ELSE IF Head(s).key \in ks THEN Filter(Tail(s), ks)
         ELSE <<Head(s)>> \o Filter(Tail(s), ks)

Keys(s) == {s[i].key : i \in 1..Len(s)}

Entry(s, k) == s[CHOOSE i \in 1..Len(s) : s[i].key = k]

\* d[k] = e on a dict kept in insertion order: an existing key keeps its place
DictPut(s, e) ==
    IF e.key \in Keys(s)
    THEN [i \in 1..Len(s) |-> IF s[i].key = e.key THEN e ELSE s[i]]
    ELSE Append(s, e)

RECURSIVE InsertSorted(_, _)
\* e, which came before every entry of s, put before the entries not older than it
InsertSorted(e, s) ==
    IF s = <<>> THEN <<e>>
    ELSE IF e.timestamp <= Head(s).timestamp THEN <<e>> \o s
         ELSE <<Head(s)>> \o InsertSorted(e, Tail(s))

RECURSIVE SortedByTimestamp(_)
\* sorted(d.keys(), key=lambda k: d[k]["timestamp"]): stable, oldest first
SortedByTimestamp(s) ==
    IF s = <<>> THEN <<>>
    ELSE InsertSorted(Head(s), SortedByTimestamp(Tail(s)))

\* ------------------------------------------------------------------ Plan
\* PlanStep and Plan of core/types.py
Step(id, action_type, tool_name) ==
    [id |-> id, action_type |-> action_type, tool_name |-> tool_name,
     status |-> "pending"]

NoPlan == [goal |-> None, steps |-> <<>>, current_step |-> 0, status |-> "none",
           strategy |-> "none"]

\* Plan.get_current_step: whether it returns a step, and the step
has_current_step(p) == p.current_step < Len(p.steps)

get_current_step(p) == p.steps[p.current_step + 1]

\* Plan.is_complete
is_complete(p) == p.current_step >= Len(p.steps) \/ p.status = "completed"

\* Plan.advance
advance(p) == [p EXCEPT !.current_step = p.current_step + 1]

\* Planner._create_fallback_plan
create_fallback_plan(goal) ==
    [goal |-> goal,
     steps |-> <<Step("fallback_1", "reasoning", None),
                 Step("fallback_2", "tool_call", None),
                 Step("fallback_3", "reasoning", None)>>,
     current_step |-> 0, status |-> "planning", strategy |-> "fallback"]

\* the plan create_plan returns when the LLM asks for clarification
clarification_plan(goal) ==
    [goal |-> goal, steps |-> <<Step("clarification", "clarification", None)>>,
     current_step |-> 0, status |-> "pending", strategy |-> "step_by_step"]

\* ------------------------------------------------- the planner's LLM answers
\* An answer of the planning call is modelled by what the parsing looks at:
\* error: create_completion raises; fence: the text is wrapped in ```json, in
\* plain ``` or in nothing; syntax: the JSON text is valid, has a trailing
\* comma, uses single quotes, or is no JSON at all; value: what the JSON text
\* denotes once its syntax is right.
Fences == {"json", "plain", "bare"}
JsonValues == {"plan", "plan_unknown_tool", "clarify", "empty_object", "list"}
PlannerResponses ==
    {[error |-> TRUE, fence |-> "bare", syntax |-> "garbage", value |-> "prose"]}
    \cup [error : {FALSE}, fence : Fences,
          syntax : {"valid", "trailing_comma", "single_quotes"}, value : JsonValues]
    \cup [error : {FALSE}, fence : Fences, syntax : {"garbage"}, value : {"prose"}]

\* the answers the engine's planning call is explored with
PlanningAnswers ==
    {[error |-> FALSE, fence |-> "bare", syntax |-> "garbage", value |-> "prose"],
     [error |-> FALSE, fence |-> "json", syntax |-> "valid", value |-> "clarify"],
     [error |-> FALSE, fence |-> "json", syntax |-> "valid", value |-> "plan"]}

IsDict(v) == v \in {"plan", "plan_unknown_tool", "clarify", "empty_object"}
IsNested(v) == v \in {"plan", "plan_unknown_tool"}

\* Planner._extract_json: a fenced block gives its inside; in an unfenced text
\* the pattern {\s*".*?} matches an object with double-quoted keys up to its
\* first closing brace, which cuts an object holding step objects short;
\* otherwise the lines from the first '{' on, or the whole text, are returned
extract_json(text) ==
    [syntax |-> text.syntax, value |-> text.value,
     truncated |-> /\ text.fence = "bare"
                   /\ text.syntax \in {"valid", "trailing_comma"}
                   /\ IsNested(text.value)]

\* json.loads
json_loads(json_text) ==
    IF json_text.truncated \/ json_text.syntax # "valid" THEN "JSONDecodeError"
    ELSE json_text.value

\* Planner._recover_json works on the whole answer: trailing commas and single
\* quotes are repaired, anything else (the fences included) gives {}
recover_json(text) ==
    IF text.fence # "bare" \/ text.syntax = "garbage" THEN "empty_object"
    ELSE text.value

\* Planner._extract_and_validate_json: the parsed object, else the recovered
\* value when it is truthy, else ValueError
extract_and_validate_json(text) ==
    LET data == json_loads(extract_json(text))
    IN  IF data # "JSONDecodeError" /\ IsDict(data) THEN data
        ELSE IF recover_json(text) # "empty_object" THEN recover_json(text)
        ELSE "ValueError"

\* a create_plan whose except clause is missing
create_plan_unguarded(goal, response) ==
    IF response.error \/ extract_and_validate_json(response) # "clarify"
    THEN [raised |-> TRUE, plan |-> NoPlan]
    ELSE [raised |-> FALSE, plan |-> clarification_plan(goal)]

\* Planner.create_plan.  Everything from the LLM call on is inside the try:
\* an LLM error, a ValueError of the parsing, the AttributeError of .get on a
\* recovered list, and, for every answer that yields steps, the NameError of
\* datetime.now() (planner.py imports no datetime) all reach the except clause,
\* which returns the fallback plan.  Only requires_clarification returns
\* before plan_history is written.
create_plan(goal, response) ==
    IF response.error \/ extract_and_validate_json(response) # "clarify"
    THEN [raised |-> FALSE, plan |-> create_fallback_plan(goal)]
    ELSE [raised |-> FALSE, plan |-> clarification_plan(goal)]

\* --------------------------------------------------------------- Planner.replan
ReplanDecisions == {"continue", "adjust", "complete", "fail", "ask_for_help"}

\* the step lists an LLM may give with decision adjust
UpdatedStepLists ==
    {<<>>, <<Step("adjusted_1", "reasoning", None)>>,
     <<Step("adjusted_1", "reasoning", None), Step("adjusted_2", "tool_call", "read_file")>>}

\* plan.steps.insert(i, x): an index beyond the end appends
ListInsert(s, i, x) ==
    IF i >= Len(s) THEN Append(s, x)
    ELSE SubSeq(s, 1, i) \o <<x>> \o SubSeq(s, i + 1, Len(s))

\* a replan_adjust that forgets the completed steps
replan_adjust_dropping(p, updated_steps) ==
    [p EXCEPT !.steps = updated_steps]

\* decision adjust with a non-empty updated_plan
replan_adjust(p, updated_steps) ==
    [p EXCEPT !.steps = Head_n(p.steps, p.current_step) \o updated_steps]

\* decision ask_for_help
replan_ask_for_help(p) ==
    [p EXCEPT !.steps = ListInsert(p.steps, p.current_step + 1,
                                   Step(<<"clarify", p.current_step>>,
                                        "clarification", None))]

\* a replan whose continue branch starts the plan over
replan_restarting(p, decision, has_update, updated_steps) ==
    CASE decision = "complete" -> [p EXCEPT !.status = "completed"]
      [] decision = "fail" -> [p EXCEPT !.status = "failed"]
      [] decision = "ask_for_help" -> replan_ask_for_help(p)
      [] decision = "adjust" ->
            IF has_update THEN replan_adjust(p, updated_steps) ELSE p
      [] OTHER -> [p EXCEPT !.current_step = 0]

\* Planner.replan: the plan it returns (the same object, mutated).  has_update
\* is whether replan_data carries a non-empty "updated_plan".
replan(p, decision, has_update, updated_steps) ==
    CASE decision = "complete" -> [p EXCEPT !.status = "completed"]
      [] decision = "fail" -> [p EXCEPT !.status = "failed"]
      [] decision = "ask_for_help" -> replan_ask_for_help(p)
      [] decision = "adjust" ->
            IF has_update THEN replan_adjust(p, updated_steps) ELSE p
      [] OTHER -> p

\* ---------------------------------------------------------------- limits
\* AutonomousAgent._should_stop_execution
should_stop_execution ==
    \/ phase \in {"completed", "failed", "stopped"}
    \/ iteration >= limits.max_iterations
    \/ now > limits.max_time_seconds

\* the four limits of _check_all_limits, each with its current value
LimitNames == <<"iterations", "cost", "tool_calls", "time">>

limit_max(L) ==
    CASE L = "iterations" -> limits.max_iterations
      [] L = "cost" -> limits.max_cost
      [] L = "tool_calls" -> limits.max_tool_calls
      [] L = "time" -> limits.max_time_seconds

limit_current(L) ==
    CASE L = "iterations" -> iteration
      [] L = "cost" -> total_cost
      [] L = "tool_calls" -> total_tool_calls
      [] L = "time" -> now

\* one test of _check_all_limits: max > 0 and current >= max
limit_reached(L) == limit_max(L) > 0 /\ limit_current(L) >= limit_max(L)

\* one warning test: max > 0 and current >= max * 0.9
limit_near(L) == limit_max(L) > 0 /\ 10 * limit_current(L) >= 9 * limit_max(L)

RECURSIVE SelectSeq2(_, _)
SelectSeq2(s, keep) ==
    IF s = <<>> THEN <<>>
    ELSE IF Head(s) \in keep THEN <<Head(s)>> \o SelectSeq2(Tail(s), keep)
         ELSE SelectSeq2(Tail(s), keep)

\* AutonomousAgent._check_all_limits: reason is the last limit found reached
check_all_limits ==
    LET reached == {L \in {"iterations", "cost", "tool_calls", "time"} : limit_reached(L)}
        stop == reached # {}
    IN  [should_stop |-> stop,
         reason |-> IF stop THEN Last(SelectSeq2(LimitNames, reached)) ELSE "",
         warnings |-> IF stop THEN <<>>
                      ELSE SelectSeq2(LimitNames,
                             {L \in {"iterations", "cost", "tool_calls", "time"} : limit_near(L)})]

\* safe_percent of _get_current_limits
safe_percent(current, maximum) ==
    IF maximum <= 0 THEN 0 ELSE (current * 100) \div maximum

\* AutonomousAgent._should_replan
should_replan(p) ==
    \/ /\ Len(observations) >= 5
       /\ Cardinality({i \in 1..Len(Tail_n(observations, 3)) :
                          Tail_n(observations, 3)[i].failed}) >= 2
    \/ iteration > 10 /\ p.current_step < 3
    \/ limits.max_iterations > 0 /\ 10 * iteration >= 8 * limits.max_iterations

\* -------------------------------------------------- ToolRegistry (base.py)
\* what the environment does in one ToolRegistry.execute call: whether
\* tool.initialize() succeeds, whether validate_input accepts the arguments and
\* what tool.execute returns ("exception": it raised)
ToolOutcomes ==
    [status : {"success"}, output : ToolOutputs, cost : StepCosts]
    \cup {[status |-> "failure", output |-> None, cost |-> 0],
          [status |-> "exception", output |-> None, cost |-> 0]}

ToolEnvs == [init_ok : BOOLEAN, valid : BOOLEAN, out : ToolOutcomes]

IsRegistered(name) == \E i \in 1..Len(RegisteredTools) : RegisteredTools[i] = name

ToolResult(status, output, cost, cached) ==
    [status |-> status, output |-> output, cost |-> cost, cached |-> cached]

\* ToolRegistry._create_cache_key: md5 of the canonical JSON of (tool, arguments,
\* filtered context); the agent passes no context
create_cache_key(name, arguments) == <<"tool", name, arguments>>

\* ToolRegistry._get_from_cache: the entry when it is younger than the ttl, and
\* the cache with an expired entry deleted
get_from_cache(cache, key) ==
    IF key \notin Keys(cache) THEN [hit |-> FALSE, cache |-> cache]
    ELSE IF now - Entry(cache, key).timestamp < reg_ttl
         THEN [hit |-> TRUE, cache |-> cache]
         ELSE [hit |-> FALSE, cache |-> Filter(cache, {key})]

\* max(1, int(len(cache) * 0.2))
remove_count(n) == Max(1, (n * 2) \div 10)

\* the keys of the remove_count oldest entries
OldestKeys(cache) ==
    Keys(Head_n(SortedByTimestamp(cache), remove_count(Len(cache))))

\* an insert that never makes room
add_to_cache_keeping(cache, key, result, max_size, time) ==
    DictPut(cache, [key |-> key, result |-> result, timestamp |-> time])

\* ToolRegistry._add_to_cache under _cache_config["max_size"] = max_size at
\* the given time
add_to_cache_sized(cache, key, result, max_size, time) ==
    LET kept == IF Len(cache) >= max_size
                THEN Filter(cache, OldestKeys(cache)) ELSE cache
    IN  DictPut(kept, [key |-> key, result |-> result, timestamp |-> time])

\* ToolRegistry._add_to_cache
add_to_cache(cache, key, result) ==
    add_to_cache_sized(cache, key, result, registry_cache_max_size, now)

\* ToolRegistry.execute(name, arguments) as the agent calls it (validate and
\* use_cache default to True, the cache is enabled)
registry_execute(name, arguments, env) ==
    LET key == create_cache_key(name, arguments)
        got == get_from_cache(reg_cache, key)
        same == [cache |-> got.cache, initialized |-> initialized_tools,
                 dispatched |-> FALSE]
        init == initialized_tools \cup {name}
    IN  IF ~IsRegistered(name)
        THEN [result |-> ToolResult("failure", None, 0, FALSE), cache |-> reg_cache,
              initialized |-> initialized_tools, dispatched |-> FALSE]
        ELSE IF got.hit
        THEN [result |-> ToolResult("success", Entry(reg_cache, key).result, 0, TRUE)]
             @@ same
        ELSE IF name \notin initialized_tools /\ ~env.init_ok
        THEN [result |-> ToolResult("failure", None, 0, FALSE)] @@ same
        ELSE IF ~env.valid
        THEN [result |-> ToolResult("failure", None, 0, FALSE),
              cache |-> got.cache, initialized |-> init, dispatched |-> FALSE]
        ELSE IF env.out.status = "success"
        THEN [result |-> ToolResult("success", env.out.output, env.out.cost, FALSE),
              cache |-> add_to_cache(got.cache, key, env.out.output),
              initialized |-> init, dispatched |-> TRUE]
        ELSE [result |-> ToolResult("failure", None, env.out.cost, FALSE),
              cache |-> got.cache, initialized |-> init, dispatched |-> TRUE]

\* ------------------------------------------------ ExecutionResult, updates
ExecutionResult(success, output, error, tool_used, cost, cached, needs_replan) ==
    [success |-> success, output |-> output, error |-> error,
     tool_used |-> tool_used, cost |-> cost, cached |-> cached,
     needs_replan |-> needs_replan]

NoResult == ExecutionResult(FALSE, None, None, None, 0, FALSE, FALSE)

\* AutonomousAgent._create_update: phase and iteration are read when the update
\* is created; step is the id of the step the update is about
Update(type, ph, it, step) ==
    [type |-> type, phase |-> ph, iteration |-> it, step |-> step]

\* AutonomousAgent._create_observation; it evaluates result.output[:100] for a
\* successful result and raises TypeError when output is None
observation_raises(r) == r.success /\ r.output = None

create_observation(r) ==
    IF r.success
    THEN [text |-> <<IF r.tool_used # None THEN "tool_ok" ELSE "reasoning_ok", r.output>>,
          failed |-> FALSE]
    ELSE [text |-> <<IF r.tool_used # None THEN "tool_failed" ELSE "reasoning_failed",
                     r.error>>,
          failed |-> TRUE]

\* AgentState.add_observation
add_observation(obs, o) == Tail_n(Append(obs, o), config.observation_history_size)

\* ----------------------------------------- AutonomousAgent._execute_tool_step
\* the agent's cache key: tool name and a hash of the JSON of the arguments
tool_cache_key(tool_name, arguments) == <<tool_name, arguments>>

\* a cache check that never finds an entry
tool_cache_never_hit(cache, key) == FALSE

\* the cached entry is used when it is younger than tool_cache_ttl
tool_cache_hit(cache, key) ==
    /\ key \in Keys(cache)
    /\ now - Entry(cache, key).timestamp < limits.tool_cache_ttl

\* the insert of _execute_tool_step under max_cache_size = max_size at the
\* given time (agent.py 717-734)
tool_cache_insert_sized(cache, key, output, max_size, time) ==
    LET put == DictPut(cache, [key |-> key, result |-> output, timestamp |-> time])
    IN  IF Len(put) > max_size THEN Filter(put, OldestKeys(put))
        ELSE put

\* the insert of a successful result and the size management after it
tool_cache_insert(cache, key, output) ==
    tool_cache_insert_sized(cache, key, output, limits.max_cache_size, now)

\* _execute_tool_step(step): the ExecutionResult, the caches after it and the
\* record of the call
execute_tool_step(tool_name, arguments, env) ==
    LET key == tool_cache_key(tool_name, arguments)
        reg == registry_execute(tool_name, arguments, env)
        ok == reg.result.status = "success"
        after == IF ok THEN tool_cache_insert(tool_cache, key, reg.result.output)
                 ELSE tool_cache
        rec == [key |-> key, tool |-> tool_name, time |-> now]
    IN  IF tool_name \in {None, ""}
        THEN [res |-> ExecutionResult(FALSE, None, "missing tool name", None, 0, FALSE, FALSE),
              tool_cache |-> tool_cache, reg_cache |-> reg_cache,
              initialized |-> initialized_tools,
              exec |-> rec @@ [success |-> FALSE, output |-> None, cached |-> FALSE,
                               cost |-> 0, dispatched |-> FALSE, served |-> "none",
                               stored |-> FALSE, evicted |-> {}]]
        ELSE IF tool_cache_hit(tool_cache, key)
        THEN [res |-> ExecutionResult(TRUE, Entry(tool_cache, key).result, None,
                                      tool_name, 0, TRUE, FALSE),
              tool_cache |-> tool_cache, reg_cache |-> reg_cache,
              initialized |-> initialized_tools,
              exec |-> rec @@ [success |-> TRUE, output |-> Entry(tool_cache, key).result,
                               cached |-> TRUE, cost |-> 0, dispatched |-> FALSE,
                               served |-> "agent_cache", stored |-> FALSE,
                               evicted |-> {}]]
        ELSE [res |-> ExecutionResult(ok, reg.result.output,
                                      IF ok THEN None ELSE "tool error", tool_name,
                                      reg.result.cost, FALSE, FALSE),
              tool_cache |-> after, reg_cache |-> reg.cache,
              initialized |-> reg.initialized,
              exec |-> rec @@ [success |-> ok, output |-> reg.result.output,
                               cached |-> FALSE, cost |-> reg.result.cost,
                               dispatched |-> reg.dispatched,
                               served |-> IF reg.result.cached THEN "registry_cache"
                                          ELSE "none",
                               stored |-> ok,
                               evicted |-> IF ok
                                           THEN (Keys(tool_cache) \cup {key}) \ Keys(after)
                                           ELSE {}]]

\* ------------------------------------ AutonomousAgent._execute_reasoning_step
\* what the LLM call of a reasoning step does
LlmOutcomes ==
    [status : {"success"}, content : {"o1"}, cost : StepCosts]
    \cup
    {[status |-> "success", content |-> None, cost |-> 0],
     [status |-> "error", content |-> None, cost |-> 0]}

\* the cache key: a hash of the messages (system prompt, goal, the step's
\* description, the last three observations) and the temperature
reasoning_cache_key(p, step) == <<"reasoning", p.goal, step.id, Tail_n(observations, 3)>>

\* the insert of an LLM answer and the size management after it.  An answer is
\* inserted only under a key the cache does not hold and time does not run
\* backwards, so the dict order is the order of the timestamps the code sorts by
llm_cache_insert(cache, key, content) ==
    LET put == DictPut(cache, [key |-> key, content |-> content])
    IN  IF Len(put) > llm_cache_max
        THEN Filter(put, Keys(Head_n(put, llm_cache_evict)))
        ELSE put

\* an _execute_reasoning_step whose cached answer is charged like a fresh one
execute_reasoning_step_charged(p, step, llm) ==
    LET key == reasoning_cache_key(p, step)
    IN  IF key \in Keys(llm_cache)
        THEN [res |-> ExecutionResult(TRUE, Entry(llm_cache, key).content, None, None,
                                      CHOOSE c \in StepCosts : TRUE, TRUE, FALSE),
              llm_cache |-> llm_cache]
        ELSE IF llm.status = "success"
        THEN [res |-> ExecutionResult(TRUE, llm.content, None, None, llm.cost, FALSE,
                                      FALSE),
              llm_cache |-> llm_cache_insert(llm_cache, key, llm.content)]
        ELSE [res |-> ExecutionResult(FALSE, None, "reasoning error", None, 0, FALSE,
                                      FALSE),
              llm_cache |-> llm_cache]

\* AutonomousAgent._execute_reasoning_step
execute_reasoning_step(p, step, llm) ==
    LET key == reasoning_cache_key(p, step)
    IN  IF key \in Keys(llm_cache)
        THEN [res |-> ExecutionResult(TRUE, Entry(llm_cache, key).content, None, None,
                                      0, TRUE, FALSE),
              llm_cache |-> llm_cache]
        ELSE IF llm.status = "success"
        THEN [res |-> ExecutionResult(TRUE, llm.content, None, None, llm.cost, FALSE,
                                      FALSE),
              llm_cache |-> llm_cache_insert(llm_cache, key, llm.content)]
        ELSE [res |-> ExecutionResult(FALSE, None, "reasoning error", None, 0, FALSE,
                                      FALSE),
              llm_cache |-> llm_cache]

\* -------------------------------- AutonomousAgent._execute_clarification_step
\* similar: memory.find_similar_tasks found a similar task
execute_clarification_step(similar) ==
    IF mode = "autonomous" /\ similar
    THEN ExecutionResult(TRUE, "inferred", None, None, 0, FALSE, FALSE)
    ELSE ExecutionResult(FALSE, "clarification needed", "awaiting user input", None, 0,
                         FALSE, TRUE)

\* AutonomousAgent._select_appropriate_tool, on the words of the task
HasWord(t, words) == \E w \in words : <<t, w>> \in {<<"read a", "read">>, <<"write b", "write">>}

FirstRegistered(names) ==
    LET hits == {i \in 1..Len(names) : IsRegistered(names[i])}
    IN  IF hits = {} THEN None ELSE names[CHOOSE i \in hits : \A j \in hits : i <= j]

select_appropriate_tool(t) ==
    IF HasWord(t, {"write", "create", "file"})
       /\ FirstRegistered(<<"write_file", "create_file", "file_write">>) # None
    THEN FirstRegistered(<<"write_file", "create_file", "file_write">>)
    ELSE IF HasWord(t, {"read", "open", "file"})
            /\ FirstRegistered(<<"read_file", "file_read", "open_file">>) # None
    THEN FirstRegistered(<<"read_file", "file_read", "open_file">>)
    ELSE IF Len(RegisteredTools) > 0 THEN RegisteredTools[1] ELSE ""

\* ------------------------------------------------------------------- Init
\* the agent after __init__, with a registry whose tools are registered
\* no Planner is called on its own
PlannerIdle ==
    /\ planner_pc = "off"
    /\ planner_goal = None
    /\ llm_response = None
    /\ created = None

\* no file tool is called on its own
FileIdle ==
    /\ file_pc = "off"
    /\ file_call = None
    /\ file_result = None
    /\ files = {}
    /\ touched = {}

\* no AgentManager is at work
ManagerIdle ==
    /\ mgr_pc = "off"
    /\ mgr_call = None
    /\ agents = <<>>
    /\ sessions = <<>>
    /\ coordinator = None
    /\ delegated_results = <<>>
    /\ mgr_outcome = None

\* no timed execute call is made
TimeoutIdle ==
    /\ call_pc = "off"
    /\ timed_call = None
    /\ elapsed = 0
    /\ timed_result = None

\* no validated execute call is made
ValidationIdle ==
    /\ val_pc = "off"
    /\ val_call = None
    /\ val_result = None
    /\ invoked = FALSE

ReplanIdle ==
    /\ replan_pc = "off"
    /\ replan_plan = None
    /\ replan_data = None
    /\ replanned = None

CacheIdle ==
    /\ cache_pc = "off"
    /\ cache_before = <<>>

MemoryIdle ==
    /\ mem_pc = "off"
    /\ mem_call = None
    /\ mem_result = None
    /\ mem_outcome = "off"

SnapshotIdle ==
    /\ snap_pc = "off"
    /\ saved_agent = None
    /\ state_file = None
    /\ loaded_agent = None

PoolIdle ==
    /\ pool_pc = "off"
    /\ pool_agents = <<>>
    /\ pool_sessions = <<>>
    /\ pool_clock = 0
    /\ stopped = {}
    /\ registrations = 0
    /\ creations = 0

InitIdle ==
    /\ loop_owner = None
    /\ init_pc = <<>>
    /\ init_stack = <<>>
    /\ init_ret = <<>>
    /\ tool_deps = <<>>
    /\ initialized_order = <<>>
    /\ plugin_initialized = <<>>
    /\ hook_runs = <<>>
    /\ calls_made = 0

CommunityIdle ==
    /\ ca_pc = "off"
    /\ ca_config = None
    /\ all_subgoals = <<>>
    /\ total_cost_usd = 0
    /\ step_results = <<>>
    /\ current_phase = None
    /\ emitted = {}
    /\ cost_updates = {}

ExecutorIdle ==
    /\ executor_pc = "off"
    /\ executor_call = None
    /\ tool_call = None
    /\ start_time = FALSE
    /\ pending_exception = None

BatchIdle ==
    /\ batch_pc = "off"
    /\ batch_calls = <<>>
    /\ max_parallel = 0
    /\ semaphore = 0
    /\ task_pc = <<>>
    /\ task_result = <<>>
    /\ completed_order = <<>>
    /\ batch_result = <<>>

TaskPlanIdle ==
    /\ taskplan_pc = "off"
    /\ llm_plan = None
    /\ task_plan = None

CacheSizeIdle ==
    /\ size_pc = "off"
    /\ cache_limits = None
    /\ agent_cache = <<>>
    /\ registry_cache = <<>>
    /\ cache_clock = 0
    /\ inserted_keys = {}

AuxIdle ==
    /\ PlannerIdle
    /\ FileIdle
    /\ ManagerIdle
    /\ TimeoutIdle
    /\ ValidationIdle
    /\ ReplanIdle
    /\ CacheIdle
    /\ MemoryIdle
    /\ SnapshotIdle
    /\ PoolIdle
    /\ InitIdle
    /\ CommunityIdle
    /\ ExecutorIdle
    /\ BatchIdle
    /\ TaskPlanIdle
    /\ CacheSizeIdle

EngineInit ==
    /\ mode \in Modes
    /\ limits \in (IF mode = "autonomous" THEN LimitConfigs ELSE BiteLimitConfigs)
    /\ config \in (IF mode = "autonomous" /\ limits.max_cost <= 0 THEN AgentConfigs
                   ELSE DefaultConfigs)
    /\ reg_ttl \in RegistryTtls
    /\ phase = "initializing"
    /\ iteration = 0
    /\ total_cost = 0
    /\ total_tool_calls = 0
    /\ consecutive_errors = 0
    /\ observations = <<>>
    /\ errors = 0
    /\ plan = NoPlan
    /\ tool_cache = <<>>
    /\ llm_cache = <<>>
    /\ reg_cache = <<>>
    /\ initialized_tools = {}
    /\ last_checkpoint = -1
    /\ now = 0
    /\ pc = "idle"
    /\ task = None
    /\ pending = <<>>
    /\ cur = NoResult
    /\ updates = <<>>
    /\ runs = 0
    /\ outcome = "none"
    /\ exit_reason = "none"
    /\ planner_cost = 0
    /\ cost_at_start = 0
    /\ execs = <<>>
    /\ replans = 0
    /\ resumed = FALSE

Init == EngineInit /\ AuxIdle

Emit(u) == updates' = Append(updates, u)

\* the exception of `await <async generator>` leaves run(): the except clause
\* and the finally clause raise it again, the consumer receives TypeError
RunRaises(reason) ==
    /\ pc' = "ended"
    /\ outcome' = "TypeError"
    /\ exit_reason' = reason

\* ------------------------------------------------------------------ run()
\* run(task, max_iterations=override) up to its first yield (agent.py 286-325);
\* override 0 stands for None: both are falsy
run_start(t, override) ==
    /\ pc \in {"idle", "ended"}
    /\ runs < MaxRuns
    /\ limits' = IF override # 0 THEN [limits EXCEPT !.max_iterations = override]
                 ELSE limits
    /\ phase' = "initializing"
    /\ task' = t
    /\ updates' = <<Update("init", "initializing", iteration, None)>>
    /\ pc' = "init"
    /\ runs' = runs + 1
    /\ outcome' = "running"
    /\ exit_reason' = "none"
    /\ cost_at_start' = total_cost
    /\ planner_cost' = 0
    /\ pending' = <<>>
    /\ cur' = NoResult
    /\ UNCHANGED <<aux, config, mode, iteration, total_cost, total_tool_calls,
                   consecutive_errors, observations, errors, plan, tool_cache, llm_cache, reg_cache,
                   reg_ttl, initialized_tools, last_checkpoint, now, execs, replans>>

\* a caller starts run(task)
Run ==
    /\ \E t \in (IF mode = "autonomous" THEN {"read a"} ELSE Tasks) : run_start(t, 0)
    /\ resumed' = FALSE

\* AutonomousAgent.resume
Resume ==
    /\ phase = "stopped"
    /\ plan # NoPlan
    /\ run_start(plan.goal, limits.max_iterations - iteration)
    /\ resumed' = TRUE

\* AutonomousAgent.pause, called while run() awaits the LLM or a tool
Pause ==
    /\ pc \in {"planning", "exec", "bite_exec"}
    /\ phase \notin {"completed", "failed", "stopped"}
    /\ phase' = "stopped"
    /\ UNCHANGED <<aux, resumed, config, mode, limits, iteration, total_cost, total_tool_calls,
                   consecutive_errors, observations, errors, plan, tool_cache,
                   llm_cache, reg_cache, reg_ttl, initialized_tools, last_checkpoint,
                   now, pc, task, pending, cur, updates, runs, outcome, exit_reason,
                   planner_cost, cost_at_start, execs, replans>>

\* time passes while run() awaits a step's LLM or tool call, and between runs
Tick ==
    /\ pc \in {"ended", "exec", "bite_exec"}
    /\ now < MaxClock
    /\ now' = now + 1
    /\ UNCHANGED <<aux, resumed, config, mode, limits, phase, iteration, total_cost, total_tool_calls,
                   consecutive_errors, observations, errors, plan, tool_cache,
                   llm_cache, reg_cache, reg_ttl, initialized_tools, last_checkpoint,
                   pc, task, pending, cur, updates, runs, outcome, exit_reason,
                   planner_cost, cost_at_start, execs, replans>>

\* PHASE 1 up to the planning update (agent.py 343-348)
Planning ==
    /\ pc = "init"
    /\ mode = "autonomous"
    /\ phase' = "planning"
    /\ Emit(Update("planning", "planning", iteration, None))
    /\ pc' = "planning"
    /\ UNCHANGED <<aux, resumed, config, mode, limits, iteration, total_cost, total_tool_calls,
                   consecutive_errors, observations, errors, plan, tool_cache,
                   llm_cache, reg_cache, reg_ttl, initialized_tools, last_checkpoint,
                   now, task, pending, cur, runs, outcome, exit_reason, planner_cost,
                   cost_at_start, execs, replans>>

\* planner.create_plan and the plan_created update (agent.py 350-365).  The
\* LLM call is billed whatever it answers; the usage it reports is read by
\* nobody.
CreatePlan ==
    /\ pc = "planning"
    /\ \E response \in PlanningAnswers, c \in PlannerCosts :
          /\ plan' = create_plan(task, response).plan
          /\ planner_cost' = c
    /\ Emit(Update("plan_created", phase, iteration, None))
    /\ pc' = "loop"
    /\ UNCHANGED <<aux, resumed, config, mode, limits, phase, iteration, total_cost, total_tool_calls,
                   consecutive_errors, observations, errors, tool_cache, llm_cache,
                   reg_cache, reg_ttl, initialized_tools, last_checkpoint, now, task,
                   pending, cur, runs, outcome, exit_reason, cost_at_start, execs, replans>>

\* agent.py 390-405: the current step is fetched and step_start is yielded
Dispatch ==
    IF ~has_current_step(plan)
    THEN /\ pc' = "phase4"
         /\ exit_reason' = "no_step"
         /\ UNCHANGED updates
    ELSE /\ Emit(Update("step_start", "executing", iteration, get_current_step(plan).id))
         /\ pc' = "exec"
         /\ UNCHANGED exit_reason

\* the while guard and the budget check (agent.py 370-388)
LoopHead ==
    /\ pc = "loop"
    /\ IF should_stop_execution
       THEN /\ pc' = "phase4"
            /\ exit_reason' = "guard"
            /\ UNCHANGED <<phase, updates, pending>>
       ELSE /\ phase' = "executing"
            /\ IF check_all_limits.should_stop
               THEN /\ Emit(Update("limit_reached", "executing", iteration,
                                   check_all_limits.reason))
                    /\ pc' = "phase4"
                    /\ exit_reason' = "limit"
                    /\ UNCHANGED pending
               ELSE IF check_all_limits.warnings # <<>>
               THEN /\ Emit(Update("warning", "executing", iteration,
                                   Head(check_all_limits.warnings)))
                    /\ pending' = Tail(check_all_limits.warnings)
                    /\ pc' = "warn"
                    /\ UNCHANGED exit_reason
               ELSE /\ Dispatch
                    /\ UNCHANGED pending
    /\ UNCHANGED <<aux, resumed, config, mode, limits, iteration, total_cost, total_tool_calls,
                   consecutive_errors, observations, errors, plan, tool_cache,
                   llm_cache, reg_cache, reg_ttl, initialized_tools, last_checkpoint,
                   now, task, cur, runs, outcome, planner_cost, cost_at_start, execs, replans>>

\* the rest of the warnings loop, then the dispatch (agent.py 385-405)
Warn ==
    /\ pc = "warn"
    /\ IF pending # <<>>
       THEN /\ Emit(Update("warning", phase, iteration, Head(pending)))
            /\ pending' = Tail(pending)
            /\ UNCHANGED <<pc, exit_reason>>
       ELSE /\ Dispatch
            /\ UNCHANGED pending
    /\ UNCHANGED <<aux, resumed, config, mode, limits, phase, iteration, total_cost, total_tool_calls,
                   consecutive_errors, observations, errors, plan, tool_cache,
                   llm_cache, reg_cache, reg_ttl, initialized_tools, last_checkpoint,
                   now, task, cur, runs, outcome, planner_cost, cost_at_start, execs, replans>>

\* a result handling that yields neither step_result nor step_error
record_result_silent(r, step) ==
    /\ cur' = r
    /\ iteration' = iteration + 1
    /\ total_cost' = total_cost + r.cost
    /\ total_tool_calls' = IF r.tool_used # None THEN total_tool_calls + 1
                           ELSE total_tool_calls
    /\ UNCHANGED updates
    /\ IF observation_raises(r)
       THEN /\ errors' = errors + 1
            /\ pc' = "error"
            /\ UNCHANGED observations
       ELSE /\ observations' = add_observation(observations, create_observation(r))
            /\ pc' = "result"
            /\ UNCHANGED errors

\* a result handling that keeps every observation
record_result_hoarding(r, step) ==
    /\ cur' = r
    /\ iteration' = iteration + 1
    /\ total_cost' = total_cost + r.cost
    /\ total_tool_calls' = IF r.tool_used # None THEN total_tool_calls + 1
                           ELSE total_tool_calls
    /\ IF observation_raises(r)
       THEN /\ errors' = errors + 1
            /\ Emit(Update("step_error", phase, iteration + 1, step.id))
            /\ pc' = "error"
            /\ UNCHANGED observations
       ELSE /\ observations' = Append(observations, create_observation(r))
            /\ Emit(Update("step_result", phase, iteration + 1, step.id))
            /\ pc' = "result"
            /\ UNCHANGED errors

\* a result handling that leaves the iteration counter alone
record_result_uncounted(r, step) ==
    /\ cur' = r
    /\ iteration' = iteration
    /\ total_cost' = total_cost + r.cost
    /\ total_tool_calls' = IF r.tool_used # None THEN total_tool_calls + 1
                           ELSE total_tool_calls
    /\ IF observation_raises(r)
       THEN /\ errors' = errors + 1
            /\ Emit(Update("step_error", phase, iteration, step.id))
            /\ pc' = "error"
            /\ UNCHANGED observations
       ELSE /\ observations' = add_observation(observations, create_observation(r))
            /\ Emit(Update("step_result", phase, iteration, step.id))
            /\ pc' = "result"
            /\ UNCHANGED errors

\* a result handling that counts the iteration down
record_result_countdown(r, step) ==
    /\ cur' = r
    /\ iteration' = iteration - 1
    /\ total_cost' = total_cost + r.cost
    /\ total_tool_calls' = IF r.tool_used # None THEN total_tool_calls + 1
                           ELSE total_tool_calls
    /\ IF observation_raises(r)
       THEN /\ errors' = errors + 1
            /\ Emit(Update("step_error", phase, iteration - 1, step.id))
            /\ pc' = "error"
            /\ UNCHANGED observations
       ELSE /\ observations' = add_observation(observations, create_observation(r))
            /\ Emit(Update("step_result", phase, iteration - 1, step.id))
            /\ pc' = "result"
            /\ UNCHANGED errors

\* agent.py 419-438 and 474-483: the counters are updated with the result r;
\* then the observation is created and step_result is yielded, or the
\* observation raises and the except clause yields step_error
record_result(r, step) ==
    /\ cur' = r
    /\ iteration' = iteration + 1
    /\ total_cost' = total_cost + r.cost
    /\ total_tool_calls' = IF r.tool_used # None THEN total_tool_calls + 1
                           ELSE total_tool_calls
    /\ IF observation_raises(r)
       THEN /\ errors' = errors + 1
            /\ Emit(Update("step_error", phase, iteration + 1, step.id))
            /\ pc' = "error"
            /\ UNCHANGED observations
       ELSE /\ observations' = add_observation(observations, create_observation(r))
            /\ Emit(Update("step_result", phase, iteration + 1, step.id))
            /\ pc' = "result"
            /\ UNCHANGED errors

\* _execute_step(step, plan) and the handling of its result up to the next
\* yield (agent.py 407-438, 649-675)
ExecuteStep ==
    /\ pc = "exec"
    /\ LET step == get_current_step(plan)
       IN  CASE step.action_type = "reasoning" ->
                  \E llm \in LlmOutcomes :
                     LET x == execute_reasoning_step(plan, step, llm)
                     IN  /\ record_result(x.res, step)
                         /\ llm_cache' = x.llm_cache
                         /\ UNCHANGED <<tool_cache, reg_cache, initialized_tools, execs>>
             [] step.action_type = "tool_call" ->
                  \E env \in ToolEnvs :
                     LET x == execute_tool_step(step.tool_name, "no arguments", env)
                     IN  /\ record_result(x.res, step)
                         /\ tool_cache' = x.tool_cache
                         /\ reg_cache' = x.reg_cache
                         /\ initialized_tools' = x.initialized
                         /\ execs' = Append(execs, x.exec)
                         /\ UNCHANGED llm_cache
             [] step.action_type = "clarification" ->
                  \E similar \in BOOLEAN :
                     /\ record_result(execute_clarification_step(similar), step)
                     /\ UNCHANGED <<llm_cache, tool_cache, reg_cache, initialized_tools,
                                    execs>>
    /\ UNCHANGED <<aux, resumed, config, mode, limits, phase, consecutive_errors, plan, reg_ttl,
                   last_checkpoint, now, task, pending, runs, outcome, exit_reason,
                   planner_cost, cost_at_start, replans>>

\* step.status = COMPLETED if success else FAILED (agent.py 459)
mark_step(p, success) ==
    [p EXCEPT !.steps[p.current_step + 1].status =
                  IF success THEN "completed" ELSE "failed"]

\* consecutive_errors after the result (agent.py 441-450)
errors_after(r) == IF r.success THEN 0 ELSE consecutive_errors + 1

\* agent.py 487-491: when _should_replan holds, `await self._handle_replanning`
\* raises TypeError, which ends run(); otherwise the loop goes on
Reflect(p) ==
    IF should_replan(p) THEN RunRaises("replan")
    ELSE /\ pc' = "loop"
         /\ UNCHANGED <<outcome, exit_reason>>

\* plan.advance() and the periodic checkpoint (agent.py 467-472)
advance_and_checkpoint(p) ==
    /\ plan' = advance(p)
    /\ last_checkpoint' = IF iteration % checkpoint_interval = 0 THEN iteration
                          ELSE last_checkpoint

\* the handling of a step result after step_result was yielded (agent.py 440-491)
HandleResult ==
    /\ pc = "result"
    /\ consecutive_errors' = errors_after(cur)
    /\ IF ~cur.success /\ errors_after(cur) >= max_consecutive_errors
       THEN /\ phase' = "replanning"
            /\ pc' = "phase4"
            /\ exit_reason' = "error_streak"
            /\ UNCHANGED <<plan, last_checkpoint, outcome>>
       ELSE IF cur.needs_replan
       THEN /\ phase' = "replanning"
            /\ pc' = "phase4"
            /\ exit_reason' = "needs_replan"
            /\ UNCHANGED <<plan, last_checkpoint, outcome>>
       ELSE IF is_complete(mark_step(plan, cur.success))
       THEN /\ plan' = mark_step(plan, cur.success)
            /\ phase' = "completed"
            /\ pc' = "phase4"
            /\ exit_reason' = "complete"
            /\ UNCHANGED <<last_checkpoint, outcome>>
       ELSE /\ advance_and_checkpoint(mark_step(plan, cur.success))
            /\ Reflect(advance(mark_step(plan, cur.success)))
            /\ UNCHANGED phase
    /\ UNCHANGED <<aux, resumed, config, mode, limits, iteration, total_cost, total_tool_calls, observations,
                   errors, tool_cache, llm_cache, reg_cache, reg_ttl, initialized_tools,
                   now, task, pending, cur, updates, runs, planner_cost, cost_at_start,
                   execs, replans>>

\* the rest of the except clause after step_error was yielded (agent.py 485-491)
HandleError ==
    /\ pc = "error"
    /\ consecutive_errors' = consecutive_errors + 1
    /\ Reflect(plan)
    /\ UNCHANGED <<aux, resumed, config, mode, limits, phase, iteration, total_cost, total_tool_calls,
                   observations, errors, plan, tool_cache, llm_cache, reg_cache,
                   reg_ttl, initialized_tools, last_checkpoint, now, task, pending, cur,
                   updates, runs, planner_cost, cost_at_start, execs, replans>>

\* PHASE 4 (agent.py 493-507): `await self._handle_completion(...)` or
\* `await self._handle_stopped(...)` raises TypeError before the handler's body
\* runs, and so do `await self._handle_failure(...)` in the except clause and
\* `await self._finalize_execution(...)` in the finally clause
Phase4 ==
    /\ pc = "phase4"
    /\ pc' = "ended"
    /\ outcome' = "TypeError"
    /\ UNCHANGED <<aux, resumed, config, mode, limits, phase, iteration, total_cost, total_tool_calls,
                   consecutive_errors, observations, errors, plan, tool_cache,
                   llm_cache, reg_cache, reg_ttl, initialized_tools, last_checkpoint,
                   now, task, pending, cur, updates, runs, exit_reason, planner_cost,
                   cost_at_start, execs, replans>>

\* -------------------------------------------------------- bite-sized mode
\* _run_bite_sized_mode up to the await of the tool step (agent.py 523-549)
BiteSizedMode ==
    /\ pc = "init"
    /\ mode = "bite_sized"
    /\ Emit(Update("bite_sized_mode", phase, iteration, None))
    /\ plan' = [goal |-> task,
                steps |-> <<Step("bite_sized_step", "tool_call",
                                 select_appropriate_tool(task))>>,
                current_step |-> 0, status |-> "planning", strategy |-> "bite_sized"]
    /\ pc' = "bite_exec"
    /\ UNCHANGED <<aux, resumed, config, mode, limits, phase, iteration, total_cost, total_tool_calls,
                   consecutive_errors, observations, errors, tool_cache, llm_cache,
                   reg_cache, reg_ttl, initialized_tools, last_checkpoint, now, task,
                   pending, cur, runs, outcome, exit_reason, planner_cost,
                   cost_at_start, execs, replans>>

\* the tool step and the bite_sized_result update (agent.py 548-555)
BiteExec ==
    /\ pc = "bite_exec"
    /\ \E env \in ToolEnvs :
          LET x == execute_tool_step(plan.steps[1].tool_name, task, env)
          IN  /\ cur' = x.res
              /\ tool_cache' = x.tool_cache
              /\ reg_cache' = x.reg_cache
              /\ initialized_tools' = x.initialized
              /\ execs' = Append(execs, x.exec)
    /\ Emit(Update("bite_sized_result", phase, iteration, "bite_sized_step"))
    /\ pc' = "bite_done"
    /\ UNCHANGED <<aux, resumed, config, mode, limits, phase, iteration, total_cost, total_tool_calls,
                   consecutive_errors, observations, errors, plan, llm_cache, reg_ttl,
                   last_checkpoint, now, task, pending, runs, outcome, exit_reason,
                   planner_cost, cost_at_start, replans>>

\* the return of run() (agent.py 339, 505-507): the finally clause raises
BiteReturn ==
    /\ pc = "bite_done"
    /\ RunRaises("return")
    /\ UNCHANGED <<aux, resumed, config, mode, limits, phase, iteration, total_cost, total_tool_calls,
                   consecutive_errors, observations, errors, plan, tool_cache,
                   llm_cache, reg_cache, reg_ttl, initialized_tools, last_checkpoint,
                   now, task, pending, cur, updates, runs, planner_cost, cost_at_start,
                   execs, replans>>

\* ------------------------------------------------- Planner.replan as an API
\* run() never reaches planner.replan (the await of _handle_replanning raises);
\* a caller applies it to the agent's plan after a run that ended for replanning
PlannerReplan ==
    /\ pc = "ended"
    /\ plan # NoPlan
    /\ exit_reason \in {"replan", "needs_replan", "error_streak"}
    /\ replans < MaxReplans
    /\ replans' = replans + 1
    /\ \E d \in ReplanDecisions, has_update \in BOOLEAN, us \in UpdatedStepLists :
          plan' = replan(plan, d, has_update, us)
    /\ UNCHANGED <<aux, resumed, config, mode, limits, phase, iteration, total_cost, total_tool_calls,
                   consecutive_errors, observations, errors, tool_cache, llm_cache,
                   reg_cache, reg_ttl, initialized_tools, last_checkpoint, now, pc,
                   task, pending, cur, updates, runs, outcome, exit_reason,
                   planner_cost, cost_at_start, execs>>

Next ==
    \/ Run
    \/ Resume
    \/ Pause
    \/ Tick
    \/ Planning
    \/ CreatePlan
    \/ LoopHead
    \/ Warn
    \/ ExecuteStep
    \/ HandleResult
    \/ HandleError
    \/ Phase4
    \/ BiteSizedMode
    \/ BiteExec
    \/ BiteReturn
    \/ PlannerReplan

Spec == Init /\ [][Next]_vars

\* ==================================================================== claims
Terminal == {"completed", "failed", "stopped"}

UpdateTypes(t) == {i \in 1..Len(updates) : updates[i].type = t}

\* the while loop was left by its guard although no phase asked for it
GuardExit == exit_reason = "guard" /\ phase \notin Terminal

ReadOnly(tool) == tool \in DOMAIN Capabilities /\ "read_only" \in Capabilities[tool]

Mutating(tool) ==
    tool \in DOMAIN Capabilities
    /\ Capabilities[tool] \cap {"writable", "destructive"} # {}

\* C1: once the budget check has found an enforced limit met, a limit_reached
\* update is emitted, no step_start follows it and the run ends in phase stopped
C1_LimitReachedStops ==
    \A i \in UpdateTypes("limit_reached") :
        /\ \A j \in UpdateTypes("step_start") : j < i
        /\ pc = "ended" => phase = "stopped"

\* C2: when the loop is left with iteration = max_iterations > 0, a limit_reached
\* update was emitted by the budget check before the loop exited
C2_IterationLimitAnnounced ==
    (/\ pc \in {"phase4", "ended"}
     /\ GuardExit
     /\ limits.max_iterations > 0
     /\ iteration = limits.max_iterations
     /\ now <= limits.max_time_seconds)
    => UpdateTypes("limit_reached") # {}

\* C3: the loop-continuation test never ends the loop on account of a limit
\* configured with a value <= 0: when the guard ends the loop, a limit with a
\* positive maximum is the cause
C3_UnlimitedNeverStops ==
    GuardExit =>
        \/ limits.max_iterations > 0 /\ iteration >= limits.max_iterations
        \/ limits.max_time_seconds > 0 /\ now > limits.max_time_seconds

\* C4: between a step_start for step i and a later step_start for another step
\* there is a step_result or a step_error for step i
C4_StepResultBeforeNextStart ==
    \A i, j \in UpdateTypes("step_start") :
        (i < j /\ updates[i].step # updates[j].step) =>
            \E k \in (i + 1)..(j - 1) :
                /\ updates[k].type \in {"step_result", "step_error"}
                /\ updates[k].step = updates[i].step

C4_Witness ==
    \E i, j \in UpdateTypes("step_start") :
        /\ i < j
        /\ updates[i].step # updates[j].step
        /\ \E k \in (i + 1)..(j - 1) :
              updates[k].type = "step_result" /\ updates[k].step = updates[i].step

\* C5: the iteration fields of the updates of one run never decrease in the
\* order of emission
C5_IterationMonotonic ==
    \A i, j \in 1..Len(updates) : i < j => updates[i].iteration <= updates[j].iteration

C5_Witness ==
    /\ Len(updates) >= 2
    /\ updates[1].iteration > 0
    /\ Last(updates).iteration > updates[1].iteration

\* C6: no step of a run decreases total_cost, and a step whose result comes from
\* a cache leaves total_cost as it was
C6_CostMonotonic ==
    [][/\ total_cost' >= total_cost
       /\ (pc = "exec" /\ pc' \in {"result", "error"} /\ cur'.cached)
              => total_cost' = total_cost]_vars

C6_Witness == pc = "error" /\ cur.cached /\ total_cost > cost_at_start

\* C7: after planning, total_cost includes what the planning call cost
C7_PlanningCostCounted ==
    (mode = "autonomous" /\ pc \notin {"idle", "init", "planning"})
    => total_cost >= cost_at_start + planner_cost

\* C8 as stated: of two executions of the same read-only tool with the same
\* arguments within the cache TTL, the second returns the output of the first,
\* cached and at cost 0, and the tool is not dispatched for it
C8_RepeatIsCached ==
    \A i, j \in 1..Len(execs) :
        (/\ i < j
         /\ execs[i].key = execs[j].key
         /\ ReadOnly(execs[i].tool)
         /\ execs[j].time - execs[i].time < limits.tool_cache_ttl)
        => /\ execs[j].output = execs[i].output
           /\ execs[j].cached
           /\ execs[j].cost = 0
           /\ ~execs[j].dispatched

\* C8 amended: when the first execution succeeded and stored its result, and the
\* entry was not evicted from the agent's cache up to the second execution, the
\* second execution within tool_cache_ttl returns the stored output, cached and
\* at cost 0, and the tool is not dispatched for it
C8_StoredRepeatIsCached ==
    \A i, j \in 1..Len(execs) :
        (/\ i < j
         /\ execs[i].key = execs[j].key
         /\ ReadOnly(execs[i].tool)
         /\ execs[i].stored
         /\ \A k \in i..(j - 1) : execs[i].key \notin execs[k].evicted
         /\ execs[j].time - execs[i].time < limits.tool_cache_ttl)
        => /\ execs[j].output = execs[i].output
           /\ execs[j].cached
           /\ execs[j].cost = 0
           /\ ~execs[j].dispatched

C8_Witness ==
    \E i, j \in 1..Len(execs) :
        /\ i < j
        /\ execs[i].key = execs[j].key
        /\ ReadOnly(execs[i].tool)
        /\ execs[i].stored
        /\ execs[i].dispatched
        /\ execs[i].cost > 0
        /\ execs[j].cached
        /\ execs[j].output = execs[i].output

\* C9: the result of a writable or destructive tool is never stored in a cache
\* and never served from one
C9_MutatingToolsBypassCache ==
    \A i \in 1..Len(execs) :
        Mutating(execs[i].tool) => ~execs[i].stored /\ execs[i].served = "none"

\* C10: 0 <= current_step <= number of steps, in every state of a run and after
\* every replan decision
C10_CurrentStepInRange ==
    0 <= plan.current_step /\ plan.current_step <= Len(plan.steps)

C10_Witness ==
    /\ replans > 0
    /\ plan.current_step > 0
    /\ plan.current_step = Len(plan.steps)
    /\ plan.strategy = "fallback"

\* C11: every tool_call step the engine dispatches names a tool that is
\* registered in the registry
C11_DispatchedToolRegistered ==
    (pc = "exec" /\ get_current_step(plan).action_type = "tool_call")
    => IsRegistered(get_current_step(plan).tool_name)

\* C12: when a step failure brings consecutive_errors to max_consecutive_errors,
\* the engine emits a replanning update and goes on instead of ending the run
C12_ErrorStreakReplans ==
    (/\ exit_reason = "error_streak"
     /\ consecutive_errors >= max_consecutive_errors
     /\ pc \in {"phase4", "ended"})
    => UpdateTypes("replanning") # {}

engine == <<resumed, config, mode, limits, phase, iteration, total_cost, total_tool_calls,
            consecutive_errors, observations, errors, plan, tool_cache, llm_cache,
            reg_cache, reg_ttl, initialized_tools, last_checkpoint, now, pc, task,
            pending, cur, updates, runs, outcome, exit_reason, planner_cost,
            cost_at_start, execs, replans>>

\* the engine standing still in one initial state
EngineIdle ==
    /\ EngineInit
    /\ mode = "autonomous"
    /\ limits = [max_iterations |-> 2, max_cost |-> 10, max_tool_calls |-> 1,
                 max_time_seconds |-> 1, max_cache_size |-> 1, tool_cache_ttl |-> 1]

\* what a component used on its own leaves alone, and how it finds the rest
outside_planner == <<file_vars, manager_vars, timeout_vars, validation_vars, replan_vars, cache_vars, memory_vars, snapshot_vars, pool_vars, init_vars, community_vars, executor_vars, batch_vars, taskplan_vars, cachesize_vars, engine>>
outside_files == <<planner_vars, manager_vars, timeout_vars, validation_vars, replan_vars, cache_vars, memory_vars, snapshot_vars, pool_vars, init_vars, community_vars, executor_vars, batch_vars, taskplan_vars, cachesize_vars, engine>>
outside_manager == <<planner_vars, file_vars, timeout_vars, validation_vars, replan_vars, cache_vars, memory_vars, snapshot_vars, pool_vars, init_vars, community_vars, executor_vars, batch_vars, taskplan_vars, cachesize_vars, engine>>
outside_timeout == <<planner_vars, file_vars, manager_vars, validation_vars, replan_vars, cache_vars, memory_vars, snapshot_vars, pool_vars, init_vars, community_vars, executor_vars, batch_vars, taskplan_vars, cachesize_vars, engine>>
outside_validation == <<planner_vars, file_vars, manager_vars, timeout_vars, replan_vars, cache_vars, memory_vars, snapshot_vars, pool_vars, init_vars, community_vars, executor_vars, batch_vars, taskplan_vars, cachesize_vars, engine>>
outside_replan == <<planner_vars, file_vars, manager_vars, timeout_vars, validation_vars, cache_vars, memory_vars, snapshot_vars, pool_vars, init_vars, community_vars, executor_vars, batch_vars, taskplan_vars, cachesize_vars, engine>>
outside_snapshot == <<planner_vars, file_vars, manager_vars, timeout_vars, validation_vars, replan_vars, cache_vars, memory_vars, pool_vars, init_vars, community_vars, executor_vars, batch_vars, taskplan_vars, cachesize_vars, engine>>
outside_pool == <<planner_vars, file_vars, manager_vars, timeout_vars, validation_vars, replan_vars, cache_vars, memory_vars, snapshot_vars, init_vars, community_vars, executor_vars, batch_vars, taskplan_vars, cachesize_vars, engine>>
outside_init == <<planner_vars, file_vars, manager_vars, timeout_vars, validation_vars, replan_vars, cache_vars, memory_vars, snapshot_vars, pool_vars, community_vars, executor_vars, batch_vars, taskplan_vars, cachesize_vars, engine>>
outside_community == <<planner_vars, file_vars, manager_vars, timeout_vars, validation_vars, replan_vars, cache_vars, memory_vars, snapshot_vars, pool_vars, init_vars, executor_vars, batch_vars, taskplan_vars, cachesize_vars, engine>>
outside_executor == <<planner_vars, file_vars, manager_vars, timeout_vars, validation_vars, replan_vars, cache_vars, memory_vars, snapshot_vars, pool_vars, init_vars, community_vars, batch_vars, taskplan_vars, cachesize_vars, engine>>
outside_batch == <<planner_vars, file_vars, manager_vars, timeout_vars, validation_vars, replan_vars, cache_vars, memory_vars, snapshot_vars, pool_vars, init_vars, community_vars, executor_vars, taskplan_vars, cachesize_vars, engine>>
outside_taskplan == <<planner_vars, file_vars, manager_vars, timeout_vars, validation_vars, replan_vars, cache_vars, memory_vars, snapshot_vars, pool_vars, init_vars, community_vars, executor_vars, batch_vars, cachesize_vars, engine>>
outside_cachesize == <<planner_vars, file_vars, manager_vars, timeout_vars, validation_vars, replan_vars, cache_vars, memory_vars, snapshot_vars, pool_vars, init_vars, community_vars, executor_vars, batch_vars, taskplan_vars, engine>>
besides_memory == <<planner_vars, file_vars, manager_vars, timeout_vars, validation_vars, replan_vars, cache_vars, snapshot_vars, pool_vars, init_vars, community_vars, executor_vars, batch_vars, taskplan_vars, cachesize_vars>>
besides_cache == <<planner_vars, file_vars, manager_vars, timeout_vars, validation_vars, replan_vars, memory_vars, snapshot_vars, pool_vars, init_vars, community_vars, executor_vars, batch_vars, taskplan_vars, cachesize_vars>>

\* ------------------------------------------------ Planner.create_plan alone
\* one call of create_plan for every goal and every answer of the LLM, the
\* engine standing still in its initial state
PlannerInit ==
    /\ EngineIdle
    /\ CacheSizeIdle
    /\ TaskPlanIdle
    /\ BatchIdle
    /\ ExecutorIdle
    /\ CommunityIdle
    /\ InitIdle
    /\ PoolIdle
    /\ SnapshotIdle
    /\ MemoryIdle
    /\ CacheIdle
    /\ ReplanIdle
    /\ planner_pc = "call"
    /\ planner_goal \in Tasks
    /\ llm_response \in PlannerResponses
    /\ created = None
    /\ FileIdle
    /\ ManagerIdle
    /\ TimeoutIdle
    /\ ValidationIdle

PlannerCreatePlan ==
    /\ planner_pc = "call"
    /\ created' = create_plan(planner_goal, llm_response)
    /\ planner_pc' = "returned"
    /\ UNCHANGED <<planner_goal, llm_response, outside_planner>>

PlannerNext == PlannerCreatePlan

PlannerSpec == PlannerInit /\ [][PlannerNext]_vars

\* the answer could neither be parsed nor repaired into a plan object
Unparseable(response) ==
    /\ ~response.error
    /\ \/ extract_and_validate_json(response) = "ValueError"
       \/ ~IsDict(extract_and_validate_json(response))

\* C15: when the LLM output cannot be parsed or repaired into a plan,
\* create_plan does not raise and returns a plan of exactly 3 steps with
\* strategy fallback
C15_UnparseableGivesFallback ==
    (planner_pc = "returned" /\ Unparseable(llm_response))
    => /\ ~created.raised
       /\ Len(created.plan.steps) = 3
       /\ created.plan.strategy = "fallback"

C15_Witness ==
    /\ planner_pc = "returned"
    /\ Unparseable(llm_response)
    /\ llm_response.fence = "json"
    /\ llm_response.syntax = "trailing_comma"
    /\ created.plan.strategy = "fallback"

\* ------------------------------------------------------------ the file tools
\* A path is the sequence of its components, the root being <<>>.  The
\* workspace is /ws; /ws2 is a directory beside it whose name starts with the
\* workspace's name.
MaxPathLen == 3
workspace == <<"ws">>
Components == {"..", "ws", "ws2", "a"}
Chars == [ws |-> <<"w", "s">>, ws2 |-> <<"w", "s", "2">>, a |-> <<"a">>]
InitialFiles == {<<"a">>, <<"ws", "a">>, <<"ws2", "a">>}
Directories == {<<>>, <<"ws">>, <<"ws2">>, <<"ws2", "ws">>}
PathArgs ==
    [abs : BOOLEAN, parts : UNION {[1..n -> Components] : n \in 1..MaxPathLen}]

\* Path.resolve() on base / parts
RECURSIVE resolve(_, _)
resolve(base, parts) ==
    IF parts = <<>> THEN base
    ELSE resolve(IF Head(parts) = ".."
                 THEN (IF base = <<>> THEN <<>> ELSE SubSeq(base, 1, Len(base) - 1))
                 ELSE Append(base, Head(parts)),
                 Tail(parts))

\* (self._workspace / file_path).resolve(): an absolute argument replaces the
\* workspace
full_path(arg) == resolve(IF arg.abs THEN <<>> ELSE workspace, arg.parts)

\* str(path), as a sequence of characters
RECURSIVE str(_)
str(path) ==
    IF path = <<>> THEN <<"/">>
    ELSE IF Len(path) = 1 THEN <<"/">> \o Chars[path[1]]
    ELSE str(SubSeq(path, 1, Len(path) - 1)) \o <<"/">> \o Chars[path[Len(path)]]

\* s.startswith(prefix)
startswith(s, prefix) ==
    Len(prefix) <= Len(s) /\ SubSeq(s, 1, Len(prefix)) = prefix

\* path.relative_to(self._workspace) does not raise
within_tree(path) ==
    Len(workspace) <= Len(path) /\ SubSeq(path, 1, Len(workspace)) = workspace

\* the test each execute makes: str(full_path).startswith(str(self._workspace))
within_workspace(path) == startswith(str(path), str(workspace))

\* the path lies in the directory tree of the workspace
InsideWorkspace(path) ==
    Len(workspace) <= Len(path) /\ SubSeq(path, 1, Len(workspace)) = workspace

\* a proper ancestor of the path is a regular file
UnderFile(path) == \E n \in 1..(Len(path) - 1) : SubSeq(path, 1, n) \in files

\* Path.exists()
exists(path) == ~UnderFile(path) /\ (path \in files \/ path \in Directories)

\* the entries of a directory
Entries(dir) ==
    {p \in files \cup Directories :
        Len(p) = Len(dir) + 1 /\ SubSeq(p, 1, Len(dir)) = dir}

FileResult(success, error) == [success |-> success, error |-> error]

FileInit ==
    /\ EngineIdle
    /\ CacheSizeIdle
    /\ TaskPlanIdle
    /\ BatchIdle
    /\ ExecutorIdle
    /\ CommunityIdle
    /\ InitIdle
    /\ PoolIdle
    /\ SnapshotIdle
    /\ MemoryIdle
    /\ CacheIdle
    /\ ReplanIdle
    /\ ValidationIdle
    /\ PlannerIdle
    /\ ManagerIdle
    /\ TimeoutIdle
    /\ file_pc = "call"
    /\ file_call = None
    /\ file_result = None
    /\ files = InitialFiles
    /\ touched = {}

\* what every file tool does when the call returns
Return(tool, arg, result, read_or_changed) ==
    /\ file_call' = [tool |-> tool, arg |-> arg]
    /\ file_result' = result
    /\ touched' = read_or_changed
    /\ file_pc' = "returned"
    /\ UNCHANGED outside_files

\* ReadFileTool.execute
ReadFile ==
    /\ file_pc = "call"
    /\ \E arg \in PathArgs :
          LET p == full_path(arg)
          IN  /\ UNCHANGED files
              /\ IF ~within_workspace(p)
                 THEN Return("read_file", arg, FileResult(FALSE, "Access denied"), {})
                 ELSE IF ~exists(p)
                 THEN Return("read_file", arg, FileResult(FALSE, "File not found"), {})
                 ELSE IF p \in Directories
                 THEN Return("read_file", arg, FileResult(FALSE, "Error reading file"), {})
                 ELSE Return("read_file", arg, FileResult(TRUE, None), {p})

\* WriteFileTool.execute: parent.mkdir(parents=True, exist_ok=True) and
\* write_text raise when an ancestor is a regular file or the path is a
\* directory
WriteFile ==
    /\ file_pc = "call"
    /\ \E arg \in PathArgs :
          LET p == full_path(arg)
          IN  IF ~within_workspace(p)
              THEN /\ Return("write_file", arg, FileResult(FALSE, "Access denied"), {})
                   /\ UNCHANGED files
              ELSE IF UnderFile(p) \/ p \in Directories
              THEN /\ Return("write_file", arg, FileResult(FALSE, "Error writing file"), {})
                   /\ UNCHANGED files
              ELSE /\ Return("write_file", arg, FileResult(TRUE, None), {p})
                   /\ files' = files \cup {p}

\* ListDirectoryTool.execute: item.relative_to(self._workspace) raises
\* ValueError for an entry that is not below the workspace, and the except
\* clause returns a failure
ListDirectory ==
    /\ file_pc = "call"
    /\ UNCHANGED files
    /\ \E arg \in PathArgs :
          LET p == full_path(arg)
          IN  IF ~within_workspace(p)
              THEN Return("list_directory", arg, FileResult(FALSE, "Access denied"), {})
              ELSE IF ~exists(p)
              THEN Return("list_directory", arg,
                          FileResult(FALSE, "Directory not found"), {})
              ELSE IF p \notin Directories
              THEN Return("list_directory", arg, FileResult(FALSE, "Not a directory"), {})
              ELSE IF \E e \in Entries(p) : ~within_tree(e)
              THEN Return("list_directory", arg,
                          FileResult(FALSE, "Error listing directory"), {})
              ELSE Return("list_directory", arg, FileResult(TRUE, None), {p})

\* DeleteFileTool.execute
DeleteFile ==
    /\ file_pc = "call"
    /\ \E arg \in PathArgs :
          LET p == full_path(arg)
          IN  IF ~within_workspace(p)
              THEN /\ Return("delete_file", arg, FileResult(FALSE, "Access denied"), {})
                   /\ UNCHANGED files
              ELSE IF ~exists(p)
              THEN /\ Return("delete_file", arg, FileResult(FALSE, "File not found"), {})
                   /\ UNCHANGED files
              ELSE IF p \notin files
              THEN /\ Return("delete_file", arg, FileResult(FALSE, "Not a file"), {})
                   /\ UNCHANGED files
              ELSE /\ Return("delete_file", arg, FileResult(TRUE, None), {p})
                   /\ files' = files \ {p}

FileNext ==
    \/ ReadFile
    \/ WriteFile
    \/ ListDirectory
    \/ DeleteFile

FileSpec == FileInit /\ [][FileNext]_vars

\* C16: a file tool called with a path that resolves outside the workspace
\* directory tree returns a failure and reads, writes, lists and deletes
\* nothing
C16_OutsidePathsRejected ==
    (file_pc = "returned" /\ ~InsideWorkspace(full_path(file_call.arg)))
    => /\ ~file_result.success
       /\ touched = {}
       /\ files = InitialFiles

\* C17: once pause() has set the phase to stopped while run() awaits a call,
\* the call completes, no step_start follows, and the phase stays stopped up
\* to the end of the run, whatever the awaited step returns
C17_PausedRunEndsStopped ==
    [][(phase = "stopped" /\ pc \notin {"idle", "ended"})
       => /\ phase' = "stopped"
          /\ \A i \in (Len(updates) + 1)..Len(updates') :
                updates'[i].type # "step_start"]_vars

\* C18: resume() goes on with the plan it finds (no planning step of the
\* resumed run changes the plan) and with the remaining budget (the iterations
\* left under max_iterations are the same before and after the call)
C18_ResumeKeepsPlanAndBudget ==
    [][/\ (resumed' /\ pc' = "init")
          => limits'.max_iterations - iteration' = limits.max_iterations - iteration
       /\ (resumed /\ pc \in {"init", "planning"} /\ resumed')
          => plan' = plan]_vars

\* C19: when an exception escapes the execution loop (here the TypeError of
\* the awaited _handle_replanning), the run ends in phase failed with a failed
\* update and without raising to the consumer of the updates
C19_LoopExceptionHandled ==
    (pc = "ended" /\ exit_reason = "replan")
    => /\ phase = "failed"
       /\ UpdateTypes("failed") # {}
       /\ outcome # "TypeError"

\* ------------------------------------------------------------ AgentManager
\* Identifiers are sequences of characters.  create_agent registers an agent
\* under "agent_<n>_<seconds>", while AutonomousAgent.__init__ gives the agent
\* itself the first characters of a uuid4, hexadecimal digits only.
MaxSubtasks == 2
Digits == <<"1", "2", "3", "4", "5">>
Uuids == {<<"a", "1">>, <<"b", "2">>, <<"c", "3">>}
SessionIds == {<<"s", "1">>}
Subtasks == UNION {[1..n -> Tasks] : n \in 0..MaxSubtasks}
ManagerClock == {1, 2}
Strategies == {"parallel", "hierarchical"}

\* f"agent_{len(self.agents) + 1}_{int(time.time())}"
agent_key(n, seconds) ==
    <<"a", "g", "e", "n", "t", "_", Digits[n], "_", Digits[seconds]>>

\* the sessions an AgentManager may hold before the call: none, or the
\* session of the call with shared data of an earlier agent
EarlierSessions ==
    {<<>>,
     <<[key |-> <<"s", "1">>, agents |-> <<>>, shared_data |-> {<<"e">>}]>>}

NoAgent == [key |-> <<>>, agent_id |-> <<>>, task |-> None, memory |-> {}]
NoAggregate ==
    [coordinator |-> <<>>, delegated_agents |-> <<>>, results |-> <<>>,
     success_count |-> 0]
Outcome(raised, aggregate) == [raised |-> raised, aggregate |-> aggregate]

\* AgentManager.create_agent(task, session_id): the agent, and the agents and
\* sessions dicts after the call; uuid is what uuid4 gives the new agent
create_agent(ags, sess, t, session_id, uuid, seconds, imported) ==
    LET key == agent_key(Len(ags) + 1, seconds)
        shared == IF session_id # <<>> /\ session_id \in Keys(sess)
                  THEN Entry(sess, session_id).shared_data ELSE {}
        agent == [key |-> key, agent_id |-> uuid, task |-> t,
                  memory |-> shared \cup imported]
        old == IF session_id \in Keys(sess) THEN Entry(sess, session_id)
               ELSE [key |-> session_id, agents |-> <<>>, shared_data |-> {}]
    IN  [agent |-> agent,
         agents |-> DictPut(ags, agent),
         sessions |-> IF session_id = <<>> THEN sess
                      ELSE DictPut(sess, [old EXCEPT !.agents = Append(@, key),
                                                     !.shared_data = @ \cup {key}])]

ManagerInit ==
    /\ EngineIdle
    /\ CacheSizeIdle
    /\ TaskPlanIdle
    /\ BatchIdle
    /\ ExecutorIdle
    /\ CommunityIdle
    /\ InitIdle
    /\ PoolIdle
    /\ SnapshotIdle
    /\ MemoryIdle
    /\ CacheIdle
    /\ ReplanIdle
    /\ ValidationIdle
    /\ PlannerIdle
    /\ FileIdle
    /\ TimeoutIdle
    /\ mgr_pc = "start"
    /\ mgr_call \in [session_id : SessionIds, tasks : Subtasks, seconds : ManagerClock,
                     coordination_strategy : Strategies]
    /\ agents = <<>>
    /\ sessions \in EarlierSessions
    /\ coordinator = NoAgent
    /\ delegated_results = <<>>
    /\ mgr_outcome = Outcome("none", NoAggregate)

\* _run_agents_hierarchically up to the for loop: the coordinator is created
CreateCoordinator ==
    /\ mgr_pc = "start"
    /\ mgr_call.coordination_strategy = "hierarchical"
    /\ \E uuid \in Uuids :
          LET c == create_agent(agents, sessions, "coordinate", mgr_call.session_id,
                                uuid, mgr_call.seconds, {})
          IN  /\ coordinator' = c.agent
              /\ agents' = c.agents
              /\ sessions' = c.sessions
    /\ mgr_pc' = "loop"
    /\ UNCHANGED <<mgr_call, delegated_results, mgr_outcome, outside_manager>>

\* one turn of the for loop.  delegate_task looks the parent up with
\* self.agents.get(parent_agent_id) and raises ValueError when it is not a key;
\* otherwise the child is created in the session "delegated_from_<parent>",
\* the parent's memory is imported, and the child's run() is consumed to its
\* end, where it raises TypeError (see Phase4)
DelegateSubtask ==
    /\ mgr_pc = "loop"
    /\ Len(delegated_results) < Len(mgr_call.tasks)
    /\ IF coordinator.agent_id \notin Keys(agents)
       THEN /\ mgr_outcome' = Outcome("ValueError", NoAggregate)
            /\ UNCHANGED <<agents, sessions>>
       ELSE /\ \E uuid \in Uuids :
                 LET c == create_agent(agents, sessions,
                                       mgr_call.tasks[Len(delegated_results) + 1],
                                       <<"delegated_from_">> \o coordinator.agent_id,
                                       uuid, mgr_call.seconds,
                                       Entry(agents, coordinator.agent_id).memory)
                 IN  /\ agents' = c.agents
                     /\ sessions' = c.sessions
            /\ mgr_outcome' = Outcome("TypeError", NoAggregate)
    /\ mgr_pc' = "ended"
    /\ UNCHANGED <<mgr_call, coordinator, delegated_results, outside_manager>>

\* after the loop the coordinator's run() is consumed to its end, where it
\* raises TypeError (see Phase4), so the aggregate is not returned
Aggregate ==
    /\ mgr_pc = "loop"
    /\ Len(delegated_results) = Len(mgr_call.tasks)
    /\ mgr_outcome' = Outcome("TypeError", NoAggregate)
    /\ mgr_pc' = "ended"
    /\ UNCHANGED <<mgr_call, agents, sessions, coordinator, delegated_results,
                   outside_manager>>

\* _run_agents_in_parallel, one turn of its first loop: an agent is created
\* for the next task
CreateParallelAgent ==
    /\ mgr_pc = "start"
    /\ mgr_call.coordination_strategy = "parallel"
    /\ Len(agents) < Len(mgr_call.tasks)
    /\ \E uuid \in Uuids :
          LET c == create_agent(agents, sessions, mgr_call.tasks[Len(agents) + 1],
                                mgr_call.session_id, uuid, mgr_call.seconds, {})
          IN  /\ agents' = c.agents
              /\ sessions' = c.sessions
    /\ UNCHANGED <<mgr_pc, mgr_call, coordinator, delegated_results, mgr_outcome,
                   outside_manager>>

\* the rest of _run_agents_in_parallel.  agent.run(task) only builds an async
\* generator object; asyncio.gather hands each argument to ensure_future, which
\* raises TypeError for an object that is no future, coroutine or awaitable,
\* whatever return_exceptions says.  With no task gather returns [] and the
\* empty aggregate is returned.
GatherRuns ==
    /\ mgr_pc = "start"
    /\ mgr_call.coordination_strategy = "parallel"
    /\ Len(agents) = Len(mgr_call.tasks)
    /\ mgr_outcome' = IF mgr_call.tasks # <<>> THEN Outcome("TypeError", NoAggregate)
                      ELSE Outcome("none", NoAggregate)
    /\ mgr_pc' = "ended"
    /\ UNCHANGED <<mgr_call, agents, sessions, coordinator, delegated_results,
                   outside_manager>>

ManagerNext ==
    \/ CreateCoordinator
    \/ DelegateSubtask
    \/ Aggregate
    \/ CreateParallelAgent
    \/ GatherRuns

ManagerSpec == ManagerInit /\ [][ManagerNext]_vars

\* C20: hierarchical coordination of N subtasks ends with one coordinator and
\* N children registered, and returns an aggregate with success_count, N
\* delegated agent ids and the coordinator's id
C20_HierarchicalAggregate ==
    (/\ mgr_pc = "ended"
     /\ mgr_call.coordination_strategy = "hierarchical"
     /\ mgr_call.tasks # <<>>)
    => /\ mgr_outcome.raised = "none"
       /\ Len(agents) = 1 + Len(mgr_call.tasks)
       /\ Len(mgr_outcome.aggregate.delegated_agents) = Len(mgr_call.tasks)
       /\ mgr_outcome.aggregate.coordinator = coordinator.agent_id

\* C21: the parallel strategy creates one agent per task, runs each task once
\* and returns an aggregate with one final result per task
C21_ParallelAggregate ==
    (/\ mgr_pc = "ended"
     /\ mgr_call.coordination_strategy = "parallel"
     /\ mgr_call.tasks # <<>>)
    => /\ Len(agents) = Len(mgr_call.tasks)
       /\ mgr_outcome.raised = "none"
       /\ Len(mgr_outcome.aggregate.results) = Len(mgr_call.tasks)

\* ------------------------------------------------- one budget check of run()
\* The head of one iteration of the while loop, for counters and limits as
\* run() may find them: every limit is unlimited or 10, every counter is at 0,
\* 9 or 10 of it.  updates holds the updates of this iteration only.
BudgetLevels == {0, 9, 10}
BudgetLimitConfigs ==
    [max_iterations : {0, 10}, max_cost : {0, 10}, max_tool_calls : {0, 10},
     max_time_seconds : {0, 10}, max_cache_size : {1}, tool_cache_ttl : {1}]

BudgetInit ==
    /\ AuxIdle
    /\ resumed = FALSE
    /\ mode = "autonomous"
    /\ config \in DefaultConfigs
    /\ limits \in BudgetLimitConfigs
    /\ reg_ttl \in RegistryTtls
    /\ phase = "executing"
    /\ iteration \in BudgetLevels
    /\ total_cost \in BudgetLevels
    /\ total_tool_calls \in {n \in BudgetLevels : n <= iteration}
    /\ now \in BudgetLevels
    /\ consecutive_errors = 0
    /\ observations = <<>>
    /\ errors = 0
    /\ plan = create_fallback_plan("read a")
    /\ tool_cache = <<>>
    /\ llm_cache = <<>>
    /\ reg_cache = <<>>
    /\ initialized_tools = {}
    /\ last_checkpoint = -1
    /\ pc = "loop"
    /\ task = "read a"
    /\ pending = <<>>
    /\ cur = NoResult
    /\ updates = <<>>
    /\ runs = 1
    /\ outcome = "running"
    /\ exit_reason = "none"
    /\ planner_cost = 0
    /\ cost_at_start = 0
    /\ execs = <<>>
    /\ replans = 0

BudgetNext ==
    \/ LoopHead
    \/ Warn

BudgetSpec == BudgetInit /\ [][BudgetNext]_vars

\* C22: an iteration whose budget check lets the run go on emits exactly one
\* warning when some limit is at 90% or more and none otherwise; an iteration
\* the check stops emits no warning
C22_OneWarningPerIteration ==
    /\ pc = "exec"
       => Cardinality(UpdateTypes("warning")) =
             (IF check_all_limits.warnings # <<>> THEN 1 ELSE 0)
    /\ pc = "phase4" => UpdateTypes("warning") = {}

\* ------------------------------------------- a tool call and its timeout
\* One execute call on a registered tool.  The engine's registry is the
\* ToolRegistry of base.py, whose execute takes no timeout; the registry of
\* dweepbot/tools/registry.py takes a timeout argument, 0 standing for None
\* (both are falsy).  duration is the time the tool needs to finish.
MaxDuration == 3
Registries == {"base", "tools"}
Timeouts == {0, 1, 2}
TimedCalls ==
    [registry : Registries, timeout : Timeouts, duration : 0..MaxDuration,
     out : {"success", "failure", "exception"}]

TimedResult(success, error, at) == [success |-> success, error |-> error, at |-> at]

\* the ToolResult for a tool that ran to its end
finished(call, at) ==
    CASE call.out = "success" -> TimedResult(TRUE, None, at)
      [] call.out = "failure" -> TimedResult(FALSE, "tool failure", at)
      [] call.out = "exception" -> TimedResult(FALSE, "Execution error", at)

TimeoutInit ==
    /\ EngineIdle
    /\ CacheSizeIdle
    /\ TaskPlanIdle
    /\ BatchIdle
    /\ ExecutorIdle
    /\ CommunityIdle
    /\ InitIdle
    /\ PoolIdle
    /\ SnapshotIdle
    /\ MemoryIdle
    /\ CacheIdle
    /\ ReplanIdle
    /\ ValidationIdle
    /\ PlannerIdle
    /\ FileIdle
    /\ ManagerIdle
    /\ call_pc = "awaiting"
    /\ timed_call \in TimedCalls
    /\ elapsed = 0
    /\ timed_result = TimedResult(FALSE, None, 0)

\* asyncio.wait_for is armed: registry.py with a truthy timeout
armed == timed_call.registry = "tools" /\ timed_call.timeout # 0

\* time passes while the tool is awaited
ToolRuns ==
    /\ call_pc = "awaiting"
    /\ elapsed < timed_call.duration
    /\ ~(armed /\ elapsed >= timed_call.timeout)
    /\ elapsed' = elapsed + 1
    /\ UNCHANGED <<call_pc, timed_call, timed_result, outside_timeout>>

\* base.py ToolRegistry.execute: `await tool.execute(exec_context, **arguments)`
\* returns when the tool does
BaseExecuteReturns ==
    /\ call_pc = "awaiting"
    /\ timed_call.registry = "base"
    /\ elapsed = timed_call.duration
    /\ timed_result' = finished(timed_call, elapsed)
    /\ call_pc' = "returned"
    /\ UNCHANGED <<timed_call, elapsed, outside_timeout>>

\* registry.py ToolRegistry.execute: the tool finishes, under wait_for or not
ToolsExecuteReturns ==
    /\ call_pc = "awaiting"
    /\ timed_call.registry = "tools"
    /\ elapsed = timed_call.duration
    /\ timed_result' = finished(timed_call, elapsed)
    /\ call_pc' = "returned"
    /\ UNCHANGED <<timed_call, elapsed, outside_timeout>>

\* registry.py ToolRegistry.execute: wait_for cancels the tool at the timeout
\* and the except clause returns the failure
ToolsExecuteTimesOut ==
    /\ call_pc = "awaiting"
    /\ armed
    /\ elapsed = timed_call.timeout
    /\ elapsed <= timed_call.duration
    /\ timed_result' = TimedResult(FALSE, "timed out", elapsed)
    /\ call_pc' = "returned"
    /\ UNCHANGED <<timed_call, elapsed, outside_timeout>>

TimeoutNext ==
    \/ ToolRuns
    \/ BaseExecuteReturns
    \/ ToolsExecuteReturns
    \/ ToolsExecuteTimesOut

TimeoutSpec == TimeoutInit /\ [][TimeoutNext]_vars

\* C23: a tool call that runs longer than its timeout is ended at the timeout
\* and returns a failure whose error reports the timeout
C23_TimedOutCallFails ==
    (/\ call_pc = "returned"
     /\ timed_call.timeout # 0
     /\ timed_call.duration > timed_call.timeout)
    => /\ ~timed_result.success
       /\ timed_result.error = "timed out"
       /\ timed_result.at = timed_call.timeout

\* -------------------------------------- a tool call and its validation
\* One ToolRegistry.execute(name, {"path": value}) on a registered and
\* initialized tool, validate and the cache left at their defaults and the
\* cache empty.  The value of the path argument is a string over ".", "/" and
\* "a", a sequence of characters.
MaxValueLen == 3
PathChars == {".", "/", "a"}
PathValues == UNION {[1..n -> PathChars] : n \in 1..MaxValueLen}
ValidatedCalls ==
    [capabilities : {{"writable"}, {"read_only"}}, value : PathValues,
     out : {"success", "failure"}]

\* pattern in value, for a pattern of one or two characters
contains(value, pattern) ==
    \E i \in 1..(Len(value) - Len(pattern) + 1) :
        SubSeq(value, i, i + Len(pattern) - 1) = pattern

\* the path has a segment that is exactly ".."
has_parent_segment(value) ==
    \E i \in 1..(Len(value) - 1) :
        /\ value[i] = "." /\ value[i + 1] = "."
        /\ (i = 1 \/ value[i - 1] = "/")
        /\ (i + 1 = Len(value) \/ value[i + 2] = "/")

\* ToolPlugin._validate_security: the errors it finds.  For a writable tool a
\* string argument is examined only if it holds a separator, and is an error
\* if ".." occurs in it
validate_security(call) ==
    IF /\ "writable" \in call.capabilities
       /\ contains(call.value, <<"/">>)
       /\ contains(call.value, <<".", ".">>)
    THEN <<"path traversal">>
    ELSE <<>>

\* ToolPlugin.validate_input: valid iff no stage reported an error; the schema,
\* business logic and resource stages report none for a string argument
validate_input(call) == [valid |-> validate_security(call) = <<>>,
                         errors |-> validate_security(call)]

ValidationInit ==
    /\ EngineIdle
    /\ CacheSizeIdle
    /\ TaskPlanIdle
    /\ BatchIdle
    /\ ExecutorIdle
    /\ CommunityIdle
    /\ InitIdle
    /\ PoolIdle
    /\ SnapshotIdle
    /\ MemoryIdle
    /\ CacheIdle
    /\ ReplanIdle
    /\ PlannerIdle
    /\ FileIdle
    /\ ManagerIdle
    /\ TimeoutIdle
    /\ val_pc = "validate"
    /\ val_call \in ValidatedCalls
    /\ val_result = [success |-> FALSE, error |-> None]
    /\ invoked = FALSE

\* ToolRegistry.execute up to the validation gate (base.py 614-630)
ValidateInput ==
    /\ val_pc = "validate"
    /\ IF validate_input(val_call).valid
       THEN /\ val_pc' = "execute"
            /\ UNCHANGED val_result
       ELSE /\ val_pc' = "returned"
            /\ val_result' = [success |-> FALSE, error |-> "Validation failed"]
    /\ UNCHANGED <<val_call, invoked, outside_validation>>

\* ToolRegistry.execute from `await tool.execute(...)` on (base.py 632-677)
InvokeTool ==
    /\ val_pc = "execute"
    /\ invoked' = TRUE
    /\ val_result' = [success |-> val_call.out = "success",
                      error |-> IF val_call.out = "success" THEN None
                                ELSE "tool failure"]
    /\ val_pc' = "returned"
    /\ UNCHANGED <<val_call, outside_validation>>

ValidationNext ==
    \/ ValidateInput
    \/ InvokeTool

ValidationSpec == ValidationInit /\ [][ValidationNext]_vars

\* C24: a call of a writable tool whose path argument has a ".." segment
\* returns a validation failure and never invokes the tool
C24_TraversalNeverInvoked ==
    (/\ val_pc \in {"execute", "returned"}
     /\ "writable" \in val_call.capabilities
     /\ has_parent_segment(val_call.value))
    => /\ ~invoked
       /\ val_pc = "returned"
       /\ val_result.error = "Validation failed"

\* C28: a step that is completed, failed or skipped keeps that status: in every
\* step of the engine other than the planning of a run started afresh, a step
\* of the agent's plan that is still in its place keeps a final status
C28_StepStatusMovesForward ==
    [][(resumed' \/ pc # "planning")
       => \A i \in 1..Len(plan.steps) :
             (/\ i <= Len(plan'.steps)
              /\ plan'.steps[i].id = plan.steps[i].id
              /\ plan.steps[i].status \in {"completed", "failed", "skipped"})
             => plan'.steps[i].status = plan.steps[i].status]_vars

\* C26: once a replan has decided complete the run is in phase completed, and
\* once it has decided fail the run is in phase failed
C26_ReplanDecisionEndsRun ==
    /\ (replans > 0 /\ plan.status = "completed") => phase = "completed"
    /\ (replans > 0 /\ plan.status = "failed") => phase = "failed"

\* ---------------------------------------------------- Planner.replan alone
\* one call of replan for every plan the engine can hand over and every
\* answer of the LLM: the plans create_plan returns, advanced over their first
\* steps, which the engine has marked completed
advanced(p, k) ==
    [p EXCEPT !.current_step = k,
              !.steps = [i \in 1..Len(p.steps) |->
                            IF i <= k THEN [p.steps[i] EXCEPT !.status = "completed"]
                            ELSE p.steps[i]]]

ReplanPlans ==
    {advanced(create_fallback_plan(g), k) : g \in Tasks, k \in 0..2}
    \cup {advanced(clarification_plan(g), 0) : g \in Tasks}

\* an answer is the error of create_completion or of the parsing, or the
\* parsed replan_data: its decision (any other word counts as continue),
\* whether it holds a non-empty updated_plan, and that plan's steps
ReplanAnswers ==
    [error : BOOLEAN, decision : ReplanDecisions \cup {"unknown"},
     has_update : BOOLEAN, updated_steps : UpdatedStepLists]

ReplanInit ==
    /\ EngineIdle
    /\ CacheSizeIdle
    /\ TaskPlanIdle
    /\ BatchIdle
    /\ ExecutorIdle
    /\ CommunityIdle
    /\ InitIdle
    /\ PoolIdle
    /\ SnapshotIdle
    /\ MemoryIdle
    /\ CacheIdle
    /\ PlannerIdle
    /\ FileIdle
    /\ ManagerIdle
    /\ TimeoutIdle
    /\ ValidationIdle
    /\ replan_pc = "call"
    /\ replan_plan \in ReplanPlans
    /\ replan_data \in ReplanAnswers
    /\ replanned = None

\* the call returns: the except clause hands the plan back untouched
ReplanReturns ==
    /\ replan_pc = "call"
    /\ replan_pc' = "returned"
    /\ replanned' = IF replan_data.error THEN replan_plan
                    ELSE replan(replan_plan, replan_data.decision,
                                replan_data.has_update, replan_data.updated_steps)
    /\ UNCHANGED <<replan_plan, replan_data, outside_replan>>

ReplanNext == ReplanReturns

ReplanSpec == ReplanInit /\ [][ReplanNext]_vars

\* C25: replan leaves current_step and the steps below it as they were; when
\* the parsed decision is adjust and carries an updated plan, the steps from
\* current_step on are exactly that plan's steps; when the decision is
\* continue the step list is the one handed in
C25_ReplanKeepsCompletedSteps ==
    replan_pc = "returned" =>
        /\ replanned.current_step = replan_plan.current_step
        /\ Head_n(replanned.steps, replan_plan.current_step)
              = Head_n(replan_plan.steps, replan_plan.current_step)
        /\ (/\ ~replan_data.error /\ replan_data.decision = "adjust"
            /\ replan_data.has_update)
           => Drop_n(replanned.steps, replan_plan.current_step) = replan_data.updated_steps
        /\ (~replan_data.error /\ replan_data.decision = "continue")
           => /\ replanned.steps = replan_plan.steps
              /\ replanned.current_step = replan_plan.current_step

C25_Witness ==
    /\ replan_pc = "returned"
    /\ ~replan_data.error
    /\ replan_data.decision = "adjust"
    /\ replan_data.has_update
    /\ replan_plan.current_step = 2
    /\ Len(replan_data.updated_steps) = 2
    /\ replanned.steps # replan_plan.steps

\* ------------------------------------------- a series of tool steps and the cache
\* _execute_tool_step called again and again while a run is executing, with
\* time passing between the calls.  Each call is for a step whose key the
\* cache holds first or for the first step of CacheSteps whose key it lacks.
CacheSteps ==
    <<[tool_name |-> "read_file", arguments |-> "read a"],
      [tool_name |-> "read_file", arguments |-> "write b"],
      [tool_name |-> "write_file", arguments |-> "read a"],
      [tool_name |-> "write_file", arguments |-> "write b"],
      [tool_name |-> "read_file", arguments |-> "list c"],
      [tool_name |-> "write_file", arguments |-> "list c"]>>

CacheLimitConfigs ==
    [max_iterations : {0}, max_cost : {0}, max_tool_calls : {0},
     max_time_seconds : {0}, max_cache_size : {1, 5}, tool_cache_ttl : {1}]

step_key(s) == tool_cache_key(s.tool_name, s.arguments)

\* the steps a call is made for
NextSteps ==
    {CacheSteps[i] : i \in {j \in 1..Len(CacheSteps) :
        \/ tool_cache # <<>> /\ step_key(CacheSteps[j]) = tool_cache[1].key
        \/ /\ step_key(CacheSteps[j]) \notin Keys(tool_cache)
           /\ \A h \in 1..(j - 1) : step_key(CacheSteps[h]) \in Keys(tool_cache)}}

\* the tool is initialized and accepts the arguments; it returns "a", fails or
\* raises
CacheEnvs == {env \in ToolEnvs : env.init_ok /\ env.valid /\ env.out.output # "b"}

CacheInit ==
    /\ PlannerIdle
    /\ CacheSizeIdle
    /\ TaskPlanIdle
    /\ BatchIdle
    /\ ExecutorIdle
    /\ CommunityIdle
    /\ InitIdle
    /\ PoolIdle
    /\ SnapshotIdle
    /\ MemoryIdle
    /\ FileIdle
    /\ ManagerIdle
    /\ TimeoutIdle
    /\ ValidationIdle
    /\ ReplanIdle
    /\ cache_pc = "idle"
    /\ cache_before = <<>>
    /\ resumed = FALSE
    /\ mode = "autonomous"
    /\ config \in DefaultConfigs
    /\ limits \in CacheLimitConfigs
    /\ reg_ttl \in RegistryTtls
    /\ phase = "executing"
    /\ iteration = 0
    /\ total_cost = 0
    /\ total_tool_calls = 0
    /\ now = 0
    /\ consecutive_errors = 0
    /\ observations = <<>>
    /\ errors = 0
    /\ plan = create_fallback_plan("read a")
    /\ tool_cache = <<>>
    /\ llm_cache = <<>>
    /\ reg_cache = <<>>
    /\ initialized_tools = {}
    /\ last_checkpoint = -1
    /\ pc = "exec"
    /\ task = "read a"
    /\ pending = <<>>
    /\ cur = NoResult
    /\ updates = <<>>
    /\ runs = 1
    /\ outcome = "running"
    /\ exit_reason = "none"
    /\ planner_cost = 0
    /\ cost_at_start = 0
    /\ execs = <<>>
    /\ replans = 0

\* one call of _execute_tool_step (agent.py 676-754); execs keeps the record
\* of this call only
ExecuteToolStep ==
    /\ cache_pc \in {"idle", "returned"}
    /\ cache_pc' = "returned"
    /\ cache_before' = tool_cache
    /\ \E s \in NextSteps, env \in CacheEnvs :
          LET x == execute_tool_step(s.tool_name, s.arguments, env)
          IN  /\ cur' = x.res
              /\ tool_cache' = x.tool_cache
              /\ reg_cache' = x.reg_cache
              /\ initialized_tools' = x.initialized
              /\ execs' = <<x.exec>>
    /\ UNCHANGED <<besides_cache, resumed, config, mode, limits, phase, iteration,
                   total_cost, total_tool_calls, consecutive_errors, observations,
                   errors, plan, llm_cache, reg_ttl, last_checkpoint, now, pc, task,
                   pending, updates, runs, outcome, exit_reason, planner_cost,
                   cost_at_start, replans>>

CacheNext ==
    \/ ExecuteToolStep
    \/ Tick

CacheSpec == CacheInit /\ [][CacheNext]_vars

\* the latest call, the size the insert brought the cache to and the
\* timestamp of a key right after the insert
last_exec == Last(execs)
size_after_insert == Cardinality(Keys(cache_before) \cup {last_exec.key})
timestamp_after_insert(k) ==
    IF k = last_exec.key THEN last_exec.time ELSE Entry(cache_before, k).timestamp

\* C27: when the insert of a result brings the agent's tool cache above
\* max_cache_size, at least ceil(0.2 * size) entries are deleted, and no entry
\* that stays is older than a deleted one
C27_EvictsFifthOldest ==
    (/\ cache_pc = "returned" /\ last_exec.stored
     /\ size_after_insert > limits.max_cache_size)
    => /\ 10 * Cardinality(last_exec.evicted) >= 2 * size_after_insert
       /\ \A d \in last_exec.evicted : \A k \in Keys(tool_cache) :
             timestamp_after_insert(d) <= timestamp_after_insert(k)

\* --------------------------------------------- a run and its memory backend
\* One run of one step over a memory backend some of whose calls raise: the
\* task is stored, similar tasks are looked up, the step (a reasoning step or
\* a clarification step) is executed and a checkpoint is saved.
\* _archive_observations is called by _handle_replanning only, which run()
\* never enters.
MemorySites == {"store_task", "find_similar_tasks", "store_reasoning", "save_checkpoint"}

MemoryCalls ==
    [failing : SUBSET MemorySites, llm : LlmOutcomes,
     step_type : {"reasoning", "clarification"}, similar : BOOLEAN]

\* _execute_reasoning_step over a memory whose add_message may raise: the call
\* comes after the LLM answered and the answer was cached, inside the try
\* whose except clause returns the failed result (agent.py 794-850)
execute_reasoning_step_memory(p, step, llm, memory_raises) ==
    LET x == execute_reasoning_step(p, step, llm)
    IN  IF memory_raises /\ x.res.success /\ ~x.res.cached
        THEN [res |-> ExecutionResult(FALSE, None, "reasoning error", None, 0, FALSE,
                                      FALSE),
              llm_cache |-> x.llm_cache]
        ELSE x

MemoryInit ==
    /\ EngineIdle
    /\ CacheSizeIdle
    /\ TaskPlanIdle
    /\ BatchIdle
    /\ ExecutorIdle
    /\ CommunityIdle
    /\ InitIdle
    /\ PoolIdle
    /\ SnapshotIdle
    /\ PlannerIdle
    /\ FileIdle
    /\ ManagerIdle
    /\ TimeoutIdle
    /\ ValidationIdle
    /\ ReplanIdle
    /\ CacheIdle
    /\ mem_pc = "run"
    /\ mem_call \in MemoryCalls
    /\ mem_result = NoResult
    /\ mem_outcome = "running"

\* run() stores the task before its try block (agent.py 296-298): an
\* exception of add_message leaves run()
StoreTask ==
    /\ mem_pc = "run"
    /\ IF "store_task" \in mem_call.failing
       THEN mem_pc' = "ended" /\ mem_outcome' = "raised"
       ELSE mem_pc' = "lookup" /\ UNCHANGED mem_outcome
    /\ UNCHANGED <<mem_call, mem_result, besides_memory, engine>>

\* the lookup of similar tasks is inside a try (agent.py 303-309)
FindSimilarTasks ==
    /\ mem_pc = "lookup"
    /\ mem_pc' = "step"
    /\ UNCHANGED <<mem_call, mem_result, mem_outcome, besides_memory, engine>>

\* the reasoning step of the plan (agent.py 761-850)
ReasoningStep ==
    /\ mem_pc = "step"
    /\ mem_call.step_type = "reasoning"
    /\ LET p == create_fallback_plan("read a")
           x == execute_reasoning_step_memory(p, get_current_step(p), mem_call.llm,
                                              "store_reasoning" \in mem_call.failing)
       IN  /\ mem_result' = x.res
           /\ llm_cache' = x.llm_cache
    /\ mem_pc' = "checkpoint"
    /\ UNCHANGED <<mem_call, mem_outcome, besides_memory, resumed, config, mode, limits,
                   phase, iteration, total_cost, total_tool_calls, consecutive_errors,
                   observations, errors, plan, tool_cache, reg_cache, reg_ttl,
                   initialized_tools, last_checkpoint, now, pc, task, pending, cur,
                   updates, runs, outcome, exit_reason, planner_cost, cost_at_start,
                   execs, replans>>

\* a clarification step looks up similar tasks outside any try of its own
\* (agent.py 851-878): the exception reaches the except clause of the loop
\* (agent.py 474-485), which reports step_error
ClarificationStep ==
    /\ mem_pc = "step"
    /\ mem_call.step_type = "clarification"
    /\ IF "find_similar_tasks" \in mem_call.failing
       THEN mem_outcome' = "step_error" /\ UNCHANGED mem_result
       ELSE /\ mem_result' = execute_clarification_step(mem_call.similar)
            /\ UNCHANGED mem_outcome
    /\ mem_pc' = "checkpoint"
    /\ UNCHANGED <<mem_call, besides_memory, engine>>

\* _create_checkpoint saves inside a try (agent.py 1195-1216)
SaveCheckpoint ==
    /\ mem_pc = "checkpoint"
    /\ mem_pc' = "ended"
    /\ UNCHANGED <<mem_call, mem_result, mem_outcome, besides_memory, engine>>

MemoryNext ==
    \/ StoreTask
    \/ FindSimilarTasks
    \/ ReasoningStep
    \/ ClarificationStep
    \/ SaveCheckpoint

MemorySpec == MemoryInit /\ [][MemoryNext]_vars

\* C29: whichever memory calls raise, no exception leaves run() or becomes a
\* step_error, and a reasoning step whose LLM call succeeded has a successful
\* result
C29_MemoryFailuresIgnored ==
    /\ mem_outcome \in {"off", "running"}
    /\ (/\ mem_pc \in {"checkpoint", "ended"} /\ mem_outcome = "running"
        /\ mem_call.step_type = "reasoning" /\ mem_call.llm.status = "success")
       => mem_result.success

\* --------------------------------------------------- save_state, load_state
\* An enum member and a string are different values that print alike: both
\* are pairs here, <<"enum", v>> and <<"str", v>>.
EnumMember(v) == <<"enum", v>>
Str(v) == <<"str", v>>

\* Enum.value and the enum constructors AgentPhase(s), TaskStatus(s)
value(e) == Str(e[2])
TaskStatus(s) == EnumMember(s[2])
AgentPhase(s) == EnumMember(s[2])

\* json.dump of an enum member of core/types.py: the text of its value
json_dump_enum(e) == Str(e[2])

\* a Plan of the engine with its statuses as TaskStatus members
typed_plan(p) ==
    [null |-> FALSE, goal |-> p.goal, current_step |-> p.current_step,
     status |-> EnumMember(p.status), strategy |-> p.strategy,
     steps |-> [i \in 1..Len(p.steps) |->
                   [id |-> p.steps[i].id, action_type |-> p.steps[i].action_type,
                    status |-> EnumMember(p.steps[i].status)]]]

null_plan == [null |-> TRUE]

\* the plans an agent may hold when it is saved
SnapshotPlans ==
    {null_plan}
    \cup {typed_plan(advanced(create_fallback_plan("read a"), k)) : k \in 0..2}
    \cup {typed_plan(mark_step(advanced(create_fallback_plan("read a"), 1), FALSE))}

\* the agents save_state is called on: AgentState, context.limits, mode, config
SavedAgents ==
    [agent_id : {"a1b2c3d4"},
     phase : {EnumMember(ph) : ph \in {"executing", "stopped", "completed"}},
     iteration : 0..1,
     total_cost : {0, 9},
     total_tool_calls : 0..1,
     consecutive_errors : 0..1,
     observations : {<<>>, <<"tool_ok">>},
     plan : SnapshotPlans,
     limits : LimitConfigs,
     mode : {EnumMember("autonomous")},
     config : DefaultConfigs]

\* AgentState.dict(): the fields as they are, the plan as nested dicts
state_dict(a) ==
    [agent_id |-> a.agent_id, phase |-> a.phase, iteration |-> a.iteration,
     total_cost |-> a.total_cost, total_tool_calls |-> a.total_tool_calls,
     consecutive_errors |-> a.consecutive_errors, observations |-> a.observations,
     plan |-> a.plan]

\* json.dump of the plan dict: every status written as its value
json_dump_plan(p) ==
    IF p.null THEN p
    ELSE [p EXCEPT !.status = json_dump_enum(p.status),
                   !.steps = [i \in 1..Len(p.steps) |->
                                 [p.steps[i] EXCEPT
                                     !.status = json_dump_enum(p.steps[i].status)]]]

\* save_state: the document written.  The phase and the mode are replaced by
\* their .value before the dump; saved_at is the clock
save_state(a, clock) ==
    [agent_id |-> a.agent_id,
     context |-> [limits |-> a.limits],
     state |-> [state_dict(a) EXCEPT !.phase = value(a.phase),
                                     !.plan = json_dump_plan(a.plan)],
     mode |-> value(a.mode),
     config |-> a.config,
     saved_at |-> clock]

\* AgentState.from_dict: the phase becomes a member of AgentPhase again
from_dict(d) == [d EXCEPT !.phase = AgentPhase(d.phase)]

\* the plan restored by load_state: the status strings of the plan and of its
\* steps converted back, then Plan.from_dict
restore_plan(p) ==
    IF p.null THEN p
    ELSE [p EXCEPT !.status = TaskStatus(p.status),
                   !.steps = [i \in 1..Len(p.steps) |->
                                 [p.steps[i] EXCEPT
                                     !.status = TaskStatus(p.steps[i].status)]]]

\* a load_state that converts the status of the plan but not of its steps
load_state_plan_only(doc) ==
    LET st == from_dict(doc.state)
    IN  [agent_id |-> st.agent_id, phase |-> st.phase, iteration |-> st.iteration,
         total_cost |-> st.total_cost, total_tool_calls |-> st.total_tool_calls,
         consecutive_errors |-> st.consecutive_errors,
         observations |-> st.observations,
         plan |-> IF doc.state.plan.null THEN st.plan
                  ELSE [doc.state.plan EXCEPT !.status = TaskStatus(doc.state.plan.status)],
         limits |-> doc.context.limits,
         mode |-> EnumMember(doc.mode[2]),
         config |-> doc.config]

\* load_state: a new agent over the saved context, mode and config, its state
\* replaced by the saved one and its plan by the restored plan
load_state(doc) ==
    LET st == from_dict(doc.state)
    IN  [agent_id |-> st.agent_id, phase |-> st.phase, iteration |-> st.iteration,
         total_cost |-> st.total_cost, total_tool_calls |-> st.total_tool_calls,
         consecutive_errors |-> st.consecutive_errors,
         observations |-> st.observations,
         plan |-> IF doc.state.plan.null THEN st.plan ELSE restore_plan(doc.state.plan),
         limits |-> doc.context.limits,
         mode |-> EnumMember(doc.mode[2]),
         config |-> doc.config]

\* the part of an agent the save and the load are compared on
snapshot(a) ==
    [phase |-> a.phase, iteration |-> a.iteration, total_cost |-> a.total_cost,
     total_tool_calls |-> a.total_tool_calls,
     consecutive_errors |-> a.consecutive_errors, observations |-> a.observations,
     plan |-> a.plan, limits |-> a.limits]

SnapshotInit ==
    /\ EngineIdle
    /\ CacheSizeIdle
    /\ TaskPlanIdle
    /\ BatchIdle
    /\ ExecutorIdle
    /\ CommunityIdle
    /\ InitIdle
    /\ PoolIdle
    /\ PlannerIdle
    /\ FileIdle
    /\ ManagerIdle
    /\ TimeoutIdle
    /\ ValidationIdle
    /\ ReplanIdle
    /\ CacheIdle
    /\ MemoryIdle
    /\ snap_pc = "call"
    /\ saved_agent \in SavedAgents
    /\ state_file = None
    /\ loaded_agent = None

SaveState ==
    /\ snap_pc = "call"
    /\ snap_pc' = "saved"
    /\ state_file' = save_state(saved_agent, now)
    /\ UNCHANGED <<saved_agent, loaded_agent, outside_snapshot>>

LoadState ==
    /\ snap_pc = "saved"
    /\ snap_pc' = "loaded"
    /\ loaded_agent' = load_state(state_file)
    /\ UNCHANGED <<saved_agent, state_file, outside_snapshot>>

SnapshotNext ==
    \/ SaveState
    \/ LoadState

SnapshotSpec == SnapshotInit /\ [][SnapshotNext]_vars

MaxAgents == 3

PoolInit ==
    /\ EngineIdle
    /\ CacheSizeIdle
    /\ TaskPlanIdle
    /\ BatchIdle
    /\ ExecutorIdle
    /\ CommunityIdle
    /\ InitIdle
    /\ PlannerIdle
    /\ FileIdle
    /\ ManagerIdle
    /\ TimeoutIdle
    /\ ValidationIdle
    /\ ReplanIdle
    /\ CacheIdle
    /\ MemoryIdle
    /\ SnapshotIdle
    /\ pool_pc = "open"
    /\ pool_agents = <<>>
    /\ pool_sessions = <<>>
    /\ pool_clock = 1
    /\ stopped = {}
    /\ registrations = 0
    /\ creations = 0

\* create_agent(task) (agent.py 1502-1578)
PoolCreateAgent ==
    /\ pool_pc = "open"
    /\ creations < MaxAgents
    /\ \E t \in Tasks, uuid \in Uuids :
          LET c == create_agent(pool_agents, pool_sessions, t, <<>>, uuid, pool_clock, {})
          IN  /\ pool_agents' = c.agents
              /\ pool_sessions' = c.sessions
              /\ stopped' = stopped \ {c.agent.key}
    /\ registrations' = registrations + 1
    /\ creations' = creations + 1
    /\ UNCHANGED <<pool_pc, pool_clock, outside_pool>>

\* delegate_task(task, parent_agent_id, subtask) for a registered parent
\* (agent.py 1580-1605): the child is created in the parent's delegation session
PoolDelegateTask ==
    /\ pool_pc = "open"
    /\ creations < MaxAgents
    /\ \E parent \in Keys(pool_agents), t \in Tasks, uuid \in Uuids :
          LET c == create_agent(pool_agents, pool_sessions, t, <<"d">> \o parent, uuid,
                                pool_clock, Entry(pool_agents, parent).memory)
          IN  /\ pool_agents' = c.agents
              /\ pool_sessions' = c.sessions
              /\ stopped' = stopped \ {c.agent.key}
    /\ registrations' = registrations + 1
    /\ creations' = creations + 1
    /\ UNCHANGED <<pool_pc, pool_clock, outside_pool>>

\* pause() on a registered agent: its phase becomes stopped
PoolPause ==
    /\ pool_pc = "open"
    /\ \E k \in Keys(pool_agents) \ stopped : stopped' = stopped \cup {k}
    /\ UNCHANGED <<pool_pc, pool_agents, pool_sessions, pool_clock, registrations,
                   creations, outside_pool>>

\* cleanup_old_agents(max_age_hours=0) (agent.py 1769-1790): the cutoff is
\* now, so every agent in a final phase is deleted, last_activity being the
\* time of an earlier instant
PoolCleanup ==
    /\ pool_pc = "open"
    /\ stopped \cap Keys(pool_agents) # {}
    /\ pool_agents' = Filter(pool_agents, stopped)
    /\ registrations' = registrations - Cardinality(stopped \cap Keys(pool_agents))
    /\ stopped' = {}
    /\ UNCHANGED <<pool_pc, pool_sessions, pool_clock, creations, outside_pool>>

\* a second passes
PoolTick ==
    /\ pool_pc = "open"
    /\ pool_clock < MaxClock
    /\ pool_clock' = pool_clock + 1
    /\ UNCHANGED <<pool_pc, pool_agents, pool_sessions, stopped, registrations,
                   creations, outside_pool>>

PoolNext ==
    \/ PoolCreateAgent
    \/ PoolDelegateTask
    \/ PoolPause
    \/ PoolCleanup
    \/ PoolTick

PoolSpec == PoolInit /\ [][PoolNext]_vars

\* C31: every agent created and not cleaned up is registered under a key of
\* its own: the agents dict holds as many agents as were created and not
\* cleaned up
C31_AgentKeysUnique ==
    pool_pc = "open" => Len(pool_agents) = registrations

\* ------------------------------- ToolRegistry: initialization of the tools
\* Coroutines of one event loop call execute and initialize_tool on a shared
\* registry.  A coroutine runs until it awaits something that suspends it:
\* the tool's _on_initialize hook, or the tool's validate_input / execute.
Callers == {"agent_1", "agent_2"}

InitTools == {"a", "b"}

ToolNames == {"a", "b", "c"}

\* register(tool, dependencies) only warns about a dependency that is not
\* registered (yet), so a tool may depend on a tool that depends on it
DependencyGraphs ==
    {[a |-> {}, b |-> {}], [a |-> {"b"}, b |-> {}], [a |-> {"c"}, b |-> {}],
     [a |-> {"b"}, b |-> {"a"}], [a |-> {"a"}, b |-> {}]}

\* the interpreter's limit on nested calls, scaled down
RecursionLimit == 4

MaxCalls == 3

Frame(op, name) == [op |-> op, name |-> name, todo |-> {}, at |-> "enter"]

TopFrame(c) == init_stack[c][Len(init_stack[c])]

SetTop(c, f) == [init_stack EXCEPT ![c] = [@ EXCEPT ![Len(@)] = f]]

initialized_set == {initialized_order[i] : i \in 1..Len(initialized_order)}

\* ToolRegistry._initialized_tools.add(name)
initialized_add(name) ==
    IF name \in initialized_set THEN initialized_order
    ELSE Append(initialized_order, name)

\* the call on top of c's stack returns r to the call below it, or to c
Returns(c, r) ==
    LET rest == SubSeq(init_stack[c], 1, Len(init_stack[c]) - 1)
    IN  /\ init_stack' = [init_stack EXCEPT ![c] = rest]
        /\ init_ret' = [init_ret EXCEPT ![c] = r]
        /\ init_pc' = [init_pc EXCEPT ![c] = IF rest = <<>> THEN "returned" ELSE @]
        /\ loop_owner' = IF rest = <<>> THEN None ELSE c

\* `await self.initialize_tool(name)`: one more nested call, or RecursionError
\* which neither initialize_tool nor execute catches at this await
AwaitInitializeTool(c, f, name) ==
    IF Len(init_stack[c]) < RecursionLimit
    THEN /\ init_stack' = [init_stack EXCEPT
                              ![c] = Append([@ EXCEPT ![Len(@)] = [f EXCEPT !.at = "await"]],
                                            Frame("initialize_tool", name))]
         /\ loop_owner' = c
         /\ UNCHANGED <<init_pc, init_ret>>
    ELSE /\ init_stack' = [init_stack EXCEPT ![c] = <<>>]
         /\ init_pc' = [init_pc EXCEPT ![c] = "raised"]
         /\ init_ret' = [init_ret EXCEPT ![c] = "RecursionError"]
         /\ loop_owner' = None

InitSpecInit ==
    /\ EngineIdle
    /\ CacheSizeIdle
    /\ TaskPlanIdle
    /\ BatchIdle
    /\ ExecutorIdle
    /\ CommunityIdle
    /\ PlannerIdle
    /\ FileIdle
    /\ ManagerIdle
    /\ TimeoutIdle
    /\ ValidationIdle
    /\ ReplanIdle
    /\ CacheIdle
    /\ MemoryIdle
    /\ SnapshotIdle
    /\ PoolIdle
    /\ loop_owner = None
    /\ init_pc = [c \in Callers |-> "idle"]
    /\ init_stack = [c \in Callers |-> <<>>]
    /\ init_ret = [c \in Callers |-> None]
    /\ tool_deps \in DependencyGraphs
    /\ initialized_order = <<>>
    /\ plugin_initialized = [t \in InitTools |-> FALSE]
    /\ hook_runs = [t \in InitTools |-> 0]
    /\ calls_made = 0

\* a coroutine calls registry.execute(name, ...) or registry.initialize_tool(name)
CallRegistry ==
    /\ loop_owner = None
    /\ calls_made < MaxCalls
    /\ \E c \in Callers, op \in {"execute", "initialize_tool"}, name \in ToolNames :
          /\ init_pc[c] \in {"idle", "returned"}
          /\ init_pc' = [init_pc EXCEPT ![c] = "running"]
          /\ init_stack' = [init_stack EXCEPT ![c] = <<Frame(op, name)>>]
          /\ init_ret' = [init_ret EXCEPT ![c] = None]
          /\ loop_owner' = c
    /\ calls_made' = calls_made + 1
    /\ UNCHANGED <<tool_deps, initialized_order, plugin_initialized, hook_runs,
                   outside_init>>

\* execute up to its first await (base.py 573-613), without a cache hit
ExecuteEnter ==
    /\ \E c \in Callers :
          /\ loop_owner = c
          /\ init_pc[c] = "running"
          /\ LET f == TopFrame(c)
             IN  /\ f.op = "execute"
                 /\ f.at = "enter"
                 /\ IF f.name \notin InitTools THEN Returns(c, "failure")
                    ELSE IF f.name \notin initialized_set
                    THEN AwaitInitializeTool(c, f, f.name)
                    ELSE /\ init_stack' = SetTop(c, [f EXCEPT !.at = "run"])
                         /\ loop_owner' = None
                         /\ UNCHANGED <<init_pc, init_ret>>
    /\ UNCHANGED <<tool_deps, initialized_order, plugin_initialized, hook_runs,
                   calls_made, outside_init>>

\* initialize_tool up to the loop over the dependencies (base.py 511-520)
InitializeToolEnter ==
    /\ \E c \in Callers :
          /\ loop_owner = c
          /\ init_pc[c] = "running"
          /\ LET f == TopFrame(c)
             IN  /\ f.op = "initialize_tool"
                 /\ f.at = "enter"
                 /\ IF f.name \notin InitTools THEN Returns(c, "False")
                    ELSE IF f.name \in initialized_set THEN Returns(c, "True")
                    ELSE /\ init_stack' = SetTop(c, [f EXCEPT !.at = "deps",
                                                             !.todo = tool_deps[f.name]])
                         /\ UNCHANGED <<init_pc, init_ret, loop_owner>>
    /\ UNCHANGED <<tool_deps, initialized_order, plugin_initialized, hook_runs,
                   calls_made, outside_init>>

\* one round of `for dep in deps` (base.py 521-526)
InitializeDependency ==
    /\ \E c \in Callers :
          /\ loop_owner = c
          /\ init_pc[c] = "running"
          /\ LET f == TopFrame(c)
             IN  /\ f.op = "initialize_tool"
                 /\ f.at = "deps"
                 /\ \E dep \in f.todo :
                       LET g == [f EXCEPT !.todo = @ \ {dep}]
                       IN  IF dep \in InitTools /\ dep \notin initialized_set
                           THEN AwaitInitializeTool(c, g, dep)
                           ELSE /\ init_stack' = SetTop(c, g)
                                /\ UNCHANGED <<init_pc, init_ret, loop_owner>>
    /\ UNCHANGED <<tool_deps, initialized_order, plugin_initialized, hook_runs,
                   calls_made, outside_init>>

\* a nested initialize_tool has returned to the call that awaits it
\* (base.py 524-526, 607-613)
InitializeToolReturns ==
    /\ \E c \in Callers :
          /\ loop_owner = c
          /\ init_pc[c] = "running"
          /\ LET f == TopFrame(c)
             IN  /\ f.at = "await"
                 /\ IF init_ret[c] = "False"
                    THEN Returns(c, IF f.op = "execute" THEN "failure" ELSE "False")
                    ELSE /\ init_stack' =
                               SetTop(c, [f EXCEPT !.at = IF f.op = "execute" THEN "run"
                                                          ELSE "deps"])
                         /\ loop_owner' = IF f.op = "execute" THEN None ELSE c
                         /\ UNCHANGED <<init_pc, init_ret>>
    /\ UNCHANGED <<tool_deps, initialized_order, plugin_initialized, hook_runs,
                   calls_made, outside_init>>

\* `success = await tool.initialize()` up to `await self._on_initialize()`
\* (base.py 529, 106-117)
ToolInitialize ==
    /\ \E c \in Callers :
          /\ loop_owner = c
          /\ init_pc[c] = "running"
          /\ LET f == TopFrame(c)
             IN  /\ f.op = "initialize_tool"
                 /\ f.at = "deps"
                 /\ f.todo = {}
                 /\ IF plugin_initialized[f.name]
                    THEN /\ initialized_order' = initialized_add(f.name)
                         /\ Returns(c, "True")
                         /\ UNCHANGED hook_runs
                    ELSE /\ hook_runs' = [hook_runs EXCEPT ![f.name] = @ + 1]
                         /\ init_stack' = SetTop(c, [f EXCEPT !.at = "hook"])
                         /\ loop_owner' = None
                         /\ UNCHANGED <<init_pc, init_ret, initialized_order>>
    /\ UNCHANGED <<tool_deps, plugin_initialized, calls_made, outside_init>>

\* the hook returns or raises (base.py 117-123), and initialize_tool records
\* the success (base.py 530-536)
OnInitializeReturns ==
    /\ loop_owner = None
    /\ \E c \in Callers, ok \in BOOLEAN :
          /\ init_pc[c] = "running"
          /\ LET f == TopFrame(c)
             IN  /\ f.at = "hook"
                 /\ IF ok
                    THEN /\ plugin_initialized' = [plugin_initialized EXCEPT ![f.name] = TRUE]
                         /\ initialized_order' = initialized_add(f.name)
                         /\ Returns(c, "True")
                    ELSE /\ Returns(c, "False")
                         /\ UNCHANGED <<plugin_initialized, initialized_order>>
    /\ UNCHANGED <<tool_deps, hook_runs, calls_made, outside_init>>

\* validate_input and tool.execute return (base.py 615-697)
ToolExecutes ==
    /\ loop_owner = None
    /\ \E c \in Callers, status \in {"success", "failure"} :
          /\ init_pc[c] = "running"
          /\ TopFrame(c).at = "run"
          /\ Returns(c, status)
    /\ UNCHANGED <<tool_deps, initialized_order, plugin_initialized, hook_runs,
                   calls_made, outside_init>>

InitSpecNext ==
    \/ CallRegistry
    \/ ExecuteEnter
    \/ InitializeToolEnter
    \/ InitializeDependency
    \/ InitializeToolReturns
    \/ ToolInitialize
    \/ OnInitializeReturns
    \/ ToolExecutes

InitSpec == InitSpecInit /\ [][InitSpecNext]_vars

\* C32: the initialization hook of a registered tool is called at most once,
\* whatever calls of execute and initialize_tool the coroutines make
C32_HookRunsOnce ==
    \A t \in DOMAIN hook_runs : hook_runs[t] <= 1

\* the hook of a tool returned successfully twice
HookSucceededTwice ==
    \E t \in DOMAIN hook_runs :
        /\ hook_runs[t] >= 2
        /\ plugin_initialized[t]
        /\ \E c \in Callers : /\ init_pc[c] = "running"
                              /\ TopFrame(c).at = "hook"
                              /\ TopFrame(c).name = t

HookNeverSucceedsTwice == ~HookSucceededTwice

\* position of a tool in the order of the adds to _initialized_tools
initialized_at(t) ==
    CHOOSE i \in 1..Len(initialized_order) : initialized_order[i] = t

\* every registered dependency of an initialized tool was initialized before it
DependenciesInitializedFirst ==
    \A t \in initialized_set :
        \A dep \in (tool_deps[t] \cap InitTools) \ {t} :
            /\ dep \in initialized_set
            /\ initialized_at(dep) < initialized_at(t)

\* C40: initialize_tool comes to an end by returning for every dependency
\* graph, the nesting of its calls never runs into the interpreter's limit,
\* and a tool is recorded as initialized only after its registered dependencies
C40_InitializeToolTerminates ==
    /\ \A c \in DOMAIN init_pc : init_pc[c] # "raised"
    /\ DependenciesInitializedFirst

\* a tool with an initialized registered dependency is initialized
DependencyThenTool ==
    \E t \in initialized_set : (tool_deps[t] \cap InitTools) \ {t} # {}

\* ------------------------------ community edition: AutonomousAgent.run
\* Costs are counted in units; every LLM call and tool call that returns
\* costs LlmCosts / ToolCosts units.
MaxSubgoals == 2

LlmCosts == {0, 1}

ToolCosts == {0, 1}

CommunityConfigs == [max_cost_usd : {1, 2}, max_iterations : {1, 2}]

\* what the planning call gives: the call raises, or it returns content that
\* parses to a list of `steps` subgoals (-1: content that is no such list)
TaskPlans ==
    {[ok |-> FALSE, cost |-> 0, steps |-> -1]}
        \cup [ok : {TRUE}, cost : LlmCosts, steps : -1..MaxSubgoals]

\* what the execution call gives: the call raises, returns content that does
\* not parse, or names tool calls whose results the registry returns
SubgoalOutcomes ==
    {[ok |-> FALSE, cost |-> 0, parsed |-> FALSE, tools |-> <<>>]}
        \cup [ok : {TRUE}, cost : LlmCosts, parsed : {FALSE}, tools : {<<>>}]
        \cup [ok : {TRUE}, cost : LlmCosts, parsed : {TRUE},
              tools : {<<>>} \cup {<<r>> : r \in [success : BOOLEAN, cost : ToolCosts]}]

\* _plan_task (agent.py 258-321): the subgoals, all pending; the fallback is
\* the task as a single subgoal
plan_task(answer) ==
    IF answer.ok /\ answer.steps >= 0 THEN [i \in 1..answer.steps |-> "pending"]
    ELSE <<"pending">>

has_pending_subgoals == \E i \in 1..Len(all_subgoals) : all_subgoals[i] = "pending"

\* _exceeded_limits (agent.py 543-564)
exceeded_limits(timed_out) ==
    \/ total_cost_usd >= ca_config.max_cost_usd
    \/ Len(step_results) >= ca_config.max_iterations
    \/ timed_out

get_next_subgoal ==
    CHOOSE i \in 1..Len(all_subgoals) :
        /\ all_subgoals[i] = "pending"
        /\ \A j \in 1..(i - 1) : all_subgoals[j] # "pending"

current_subgoal == CHOOSE i \in 1..Len(all_subgoals) : all_subgoals[i] = "in_progress"

tools_cost(o) == IF o.tools = <<>> THEN 0 ELSE o.tools[1].cost

all_successful(o) == \A i \in 1..Len(o.tools) : o.tools[i].success

\* the status _execute_subgoal leaves the subgoal in (agent.py 417-429)
subgoal_status_pending(o) == "pending"

subgoal_status(o) ==
    IF o.ok /\ o.parsed /\ all_successful(o) THEN "completed" ELSE "failed"

CommunityInit ==
    /\ EngineIdle
    /\ CacheSizeIdle
    /\ TaskPlanIdle
    /\ BatchIdle
    /\ ExecutorIdle
    /\ PlannerIdle
    /\ FileIdle
    /\ ManagerIdle
    /\ TimeoutIdle
    /\ ValidationIdle
    /\ ReplanIdle
    /\ CacheIdle
    /\ MemoryIdle
    /\ SnapshotIdle
    /\ PoolIdle
    /\ InitIdle
    /\ ca_pc = "created"
    /\ ca_config \in CommunityConfigs
    /\ all_subgoals = <<>>
    /\ total_cost_usd = 0
    /\ step_results = <<>>
    /\ current_phase = "planning"
    /\ emitted = {}
    /\ cost_updates = {}

\* _handle_failure and the error update of run's except clause (agent.py 247-256)
RunFails ==
    /\ ca_pc' = "finished"
    /\ current_phase' = "failed"
    /\ emitted' = emitted \cup {"error"}

\* run() up to its first yield (agent.py 146-155)
CommunityRun ==
    /\ ca_pc = "created"
    /\ ca_pc' = "planning"
    /\ emitted' = emitted \cup {"phase_change"}
    /\ UNCHANGED <<ca_config, all_subgoals, total_cost_usd, step_results, current_phase,
                   cost_updates, outside_community>>

\* _plan_task and the planning_complete update (agent.py 157-165)
CommunityPlanTask ==
    /\ ca_pc = "planning"
    /\ \E descriptions_ok \in BOOLEAN, answer \in TaskPlans :
          IF ~descriptions_ok
          THEN /\ RunFails
               /\ UNCHANGED <<all_subgoals, total_cost_usd>>
          ELSE /\ all_subgoals' = plan_task(answer)
               /\ total_cost_usd' = total_cost_usd + answer.cost
               /\ ca_pc' = "loop"
               /\ emitted' = emitted \cup {"planning_complete"}
               /\ UNCHANGED current_phase
    /\ UNCHANGED <<ca_config, step_results, cost_updates, outside_community>>

\* the head of the execution loop up to subgoal_start (agent.py 168-185)
CommunityLoopHead ==
    /\ ca_pc = "loop"
    /\ \E timed_out \in BOOLEAN :
          IF has_pending_subgoals /\ ~exceeded_limits(timed_out)
          THEN /\ all_subgoals' = [all_subgoals EXCEPT ![get_next_subgoal] = "in_progress"]
               /\ emitted' = emitted \cup {"subgoal_start"}
               /\ ca_pc' = "act"
          ELSE /\ ca_pc' = "complete"
               /\ UNCHANGED <<all_subgoals, emitted>>
    /\ UNCHANGED <<ca_config, total_cost_usd, step_results, current_phase, cost_updates,
                   outside_community>>

\* _execute_subgoal (agent.py 323-435)
CommunityExecuteSubgoal ==
    /\ ca_pc = "act"
    /\ \E descriptions_ok \in BOOLEAN, o \in SubgoalOutcomes :
          IF ~descriptions_ok
          THEN /\ RunFails
               /\ UNCHANGED <<all_subgoals, total_cost_usd, step_results>>
          ELSE /\ total_cost_usd' = total_cost_usd + o.cost + tools_cost(o)
               /\ step_results' = IF o.ok /\ o.parsed
                                  THEN Append(step_results, all_successful(o))
                                  ELSE step_results
               /\ all_subgoals' = [all_subgoals EXCEPT ![current_subgoal] = subgoal_status(o)]
               /\ emitted' = emitted
                                \cup (IF o.ok /\ o.parsed THEN {} ELSE {"error"})
                                \cup (IF o.tools = <<>> THEN {}
                                      ELSE {"tool_execution", "tool_result"})
               /\ ca_pc' = "observe"
               /\ current_phase' = "acting"
    /\ UNCHANGED <<ca_config, cost_updates, outside_community>>

\* observation, reflection (which adds no subgoal) and the cost_update
\* (agent.py 192-223)
CommunityObserve ==
    /\ ca_pc = "observe"
    /\ current_phase' = "reflecting"
    /\ emitted' = emitted \cup {"observation", "cost_update"}
    /\ cost_updates' = cost_updates \cup {total_cost_usd}
    /\ ca_pc' = "loop"
    /\ UNCHANGED <<ca_config, all_subgoals, total_cost_usd, step_results,
                   outside_community>>

\* the summary and the completion update (agent.py 225-245, 482-505)
CommunityComplete ==
    /\ ca_pc = "complete"
    /\ \E summary_cost \in LlmCosts : total_cost_usd' = total_cost_usd + summary_cost
    /\ current_phase' = "completed"
    /\ emitted' = emitted \cup {"completion"}
    /\ ca_pc' = "finished"
    /\ UNCHANGED <<ca_config, all_subgoals, step_results, cost_updates,
                   outside_community>>

CommunityNext ==
    \/ CommunityRun
    \/ CommunityPlanTask
    \/ CommunityLoopHead
    \/ CommunityExecuteSubgoal
    \/ CommunityObserve
    \/ CommunityComplete

CommunitySpec == CommunityInit /\ [][CommunityNext]_vars

\* the event loop keeps running the generator while its consumer iterates
CommunityFairSpec == CommunitySpec /\ WF_vars(CommunityNext)

\* C33: the total cost of every cost_update, and the total cost when the
\* run has ended, are strictly below max_cost_usd
C33_CostBelowLimit ==
    ca_pc # "off" =>
        /\ \A cost \in cost_updates : cost < ca_config.max_cost_usd
        /\ ca_pc = "finished" => total_cost_usd < ca_config.max_cost_usd

\* C34: every run comes to an end, having yielded a completion or an error
\* update
C34_RunEndsWithCompletionOrError ==
    <>(ca_pc = "finished" /\ emitted \cap {"completion", "error"} # {})

\* a run whose plan did not parse and whose tool failed has ended
C34_Witness ==
    /\ ca_pc = "finished"
    /\ all_subgoals = <<"failed">>
    /\ step_results = <<FALSE>>
    /\ "completion" \in emitted

\* ------------------------------ community edition: ToolExecutor.execute_tool
ExecutorTools == {"read_file", "write_file"}

\* what awaiting tool.execute(**inputs) under wait_for gives
ToolBehaviours == {"returns", "ToolError", "Exception", "TimeoutError"}

ExecutorCalls ==
    [tool_name : ExecutorTools \cup {"missing"}, behaviour : ToolBehaviours,
     cost_usd : {0, 1}]

\* ToolCall(tool_name=..., inputs=...) (memory/schemas.py 50-60)
ToolCall(name) ==
    [tool_name |-> name, status |-> "pending", error |-> None, cost_usd |-> 0,
     output |-> None]

mark_running(tc) == [tc EXCEPT !.status = "running"]

mark_success(tc, output, cost) ==
    [tc EXCEPT !.status = "success", !.output = output, !.cost_usd = cost]

mark_failed(tc, error) == [tc EXCEPT !.status = "failed", !.error = error]

ExecutorInit ==
    /\ EngineIdle
    /\ CacheSizeIdle
    /\ TaskPlanIdle
    /\ BatchIdle
    /\ PlannerIdle
    /\ FileIdle
    /\ ManagerIdle
    /\ TimeoutIdle
    /\ ValidationIdle
    /\ ReplanIdle
    /\ CacheIdle
    /\ MemoryIdle
    /\ SnapshotIdle
    /\ PoolIdle
    /\ InitIdle
    /\ CommunityIdle
    /\ executor_pc = "created"
    /\ executor_call \in ExecutorCalls
    /\ tool_call = None
    /\ start_time = FALSE
    /\ pending_exception = None

\* execute_tool up to the try statement (executor.py 104-122)
ExecuteTool ==
    /\ executor_pc = "created"
    /\ tool_call' = ToolCall(executor_call.tool_name)
    /\ executor_pc' = "try"
    /\ UNCHANGED <<executor_call, start_time, pending_exception, outside_executor>>

\* the lookup of the tool, mark_running and start_time (executor.py 124-132)
ExecutorGetTool ==
    /\ executor_pc = "try"
    /\ IF executor_call.tool_name \notin ExecutorTools
       THEN /\ pending_exception' = "ExecutionError"
            /\ executor_pc' = "handler"
            /\ UNCHANGED <<tool_call, start_time>>
       ELSE /\ tool_call' = mark_running(tool_call)
            /\ start_time' = TRUE
            /\ executor_pc' = "await"
            /\ UNCHANGED pending_exception
    /\ UNCHANGED <<executor_call, outside_executor>>

\* `await asyncio.wait_for(tool.execute(**inputs), timeout)` and what follows
\* it in the inner try statement (executor.py 134-155)
ExecutorAwait ==
    /\ executor_pc = "await"
    /\ IF executor_call.behaviour = "returns"
       THEN /\ tool_call' = mark_success(tool_call, "output", executor_call.cost_usd)
            /\ executor_pc' = "returned"
            /\ UNCHANGED pending_exception
       ELSE IF executor_call.behaviour = "TimeoutError"
       THEN /\ tool_call' = [tool_call EXCEPT !.status = "timeout", !.error = "timed out"]
            /\ executor_pc' = "returned"
            /\ UNCHANGED pending_exception
       ELSE /\ pending_exception' = executor_call.behaviour
            /\ executor_pc' = "handler"
            /\ UNCHANGED tool_call
    /\ UNCHANGED <<executor_call, start_time, outside_executor>>

\* the except clauses of the outer try statement (executor.py 157-165): both
\* read start_time first, which raises UnboundLocalError when the try
\* statement was left before the assignment
ExecutorExcept ==
    /\ executor_pc = "handler"
    /\ IF start_time
       THEN /\ tool_call' = mark_failed(tool_call, pending_exception)
            /\ pending_exception' = None
            /\ executor_pc' = "returned"
       ELSE /\ pending_exception' = "UnboundLocalError"
            /\ executor_pc' = "raised"
            /\ UNCHANGED tool_call
    /\ UNCHANGED <<executor_call, start_time, outside_executor>>

ExecutorNext ==
    \/ ExecuteTool
    \/ ExecutorGetTool
    \/ ExecutorAwait
    \/ ExecutorExcept

ExecutorSpec == ExecutorInit /\ [][ExecutorNext]_vars

\* C35: execute_tool never raises, and the ToolCall it returns has status
\* success, failed or timeout
C35_ExecuteToolNeverRaises ==
    /\ executor_pc # "raised"
    /\ executor_pc = "returned" => tool_call.status \in {"success", "failed", "timeout"}

\* the same for the tools that are registered
ExecuteRegisteredToolNeverRaises ==
    executor_pc \notin {"off", "created"} /\ executor_call.tool_name \in ExecutorTools =>
        C35_ExecuteToolNeverRaises

\* ------------------------------ community edition: ToolRegistry.execute_batch
MaxBatch == 3

BatchTools == {"read_file", "missing"}

BatchCalls == UNION {[1..n -> BatchTools] : n \in 0..MaxBatch}

\* asyncio.gather(*tasks): the results in the order of the tasks
gather_as_completed(results, order) == [i \in 1..Len(results) |-> results[order[i]]]

gather(results, order) == [i \in 1..Len(results) |-> results[i]]

in_flight == Cardinality({i \in 1..Len(task_pc) : task_pc[i] = "running"})

BatchInit ==
    /\ EngineIdle
    /\ CacheSizeIdle
    /\ TaskPlanIdle
    /\ PlannerIdle
    /\ FileIdle
    /\ ManagerIdle
    /\ TimeoutIdle
    /\ ValidationIdle
    /\ ReplanIdle
    /\ CacheIdle
    /\ MemoryIdle
    /\ SnapshotIdle
    /\ PoolIdle
    /\ InitIdle
    /\ CommunityIdle
    /\ ExecutorIdle
    /\ batch_pc = "created"
    /\ batch_calls \in BatchCalls
    /\ max_parallel \in {1, 2}
    /\ semaphore = 0
    /\ task_pc = <<>>
    /\ task_result = <<>>
    /\ completed_order = <<>>
    /\ batch_result = <<>>

\* execute_batch up to `await asyncio.gather(*tasks)` (registry.py 183-208)
ExecuteBatch ==
    /\ batch_pc = "created"
    /\ semaphore' = max_parallel
    /\ task_pc' = [i \in 1..Len(batch_calls) |-> "waiting"]
    /\ task_result' = [i \in 1..Len(batch_calls) |-> None]
    /\ batch_pc' = "gathering"
    /\ UNCHANGED <<batch_calls, max_parallel, completed_order, batch_result,
                   outside_batch>>

\* `async with semaphore:` entered by one task (registry.py 203)
TaskAcquires ==
    /\ batch_pc = "gathering"
    /\ semaphore > 0
    /\ \E i \in 1..Len(task_pc) :
          /\ task_pc[i] = "waiting"
          /\ task_pc' = [task_pc EXCEPT ![i] = "running"]
    /\ semaphore' = semaphore - 1
    /\ UNCHANGED <<batch_pc, batch_calls, max_parallel, task_result, completed_order,
                   batch_result, outside_batch>>

\* self.execute(tool_name, timeout_per_tool, **params) returns its ToolResult,
\* a failure for a tool that is not registered, and the semaphore is released
\* (registry.py 204-206, 104-181)
TaskReturns ==
    /\ batch_pc = "gathering"
    /\ \E i \in 1..Len(task_pc), ok \in BOOLEAN :
          /\ task_pc[i] = "running"
          /\ task_pc' = [task_pc EXCEPT ![i] = "done"]
          /\ task_result' =
                [task_result EXCEPT
                    ![i] = [call |-> i, tool_name |-> batch_calls[i],
                            success |-> ok /\ batch_calls[i] # "missing"]]
          /\ completed_order' = Append(completed_order, i)
    /\ semaphore' = semaphore + 1
    /\ UNCHANGED <<batch_pc, batch_calls, max_parallel, batch_result, outside_batch>>

\* gather returns when every task is done (registry.py 209)
GatherReturns ==
    /\ batch_pc = "gathering"
    /\ \A i \in 1..Len(task_pc) : task_pc[i] = "done"
    /\ batch_result' = gather(task_result, completed_order)
    /\ batch_pc' = "returned"
    /\ UNCHANGED <<batch_calls, max_parallel, semaphore, task_pc, task_result,
                   completed_order, outside_batch>>

BatchNext ==
    \/ ExecuteBatch
    \/ TaskAcquires
    \/ TaskReturns
    \/ GatherReturns

BatchSpec == BatchInit /\ [][BatchNext]_vars

MaxPlanLen == 3

max_subgoals == 20

max_estimated_cost == 10

SubgoalIds == {"step_1", "step_2", "step_3"}

\* the dependency lists the subgoals of an LLM plan carry: at most two names
DependencyLists == {d \in SUBSET SubgoalIds : Cardinality(d) <= 2}

LlmSubgoals == [id : SubgoalIds, dependencies : DependencyLists]

\* what the planning call gives: an API error, a response without choices,
\* content that is not JSON of the expected shape, or a plan whose subgoals'
\* estimated costs add up to estimated_cost
LlmPlans ==
    [kind : {"api_error", "no_choices", "invalid_json"}, subgoals : {<<>>},
     estimated_cost : {0}]
        \cup [kind : {"plan"},
              subgoals : UNION {[1..n -> LlmSubgoals] : n \in 0..MaxPlanLen},
              estimated_cost : {1, 11}]

ids_of(subgoals) == {subgoals[i].id : i \in 1..Len(subgoals)}

\* adj.get(node, [])
adjacent(subgoals, node) ==
    IF node \in ids_of(subgoals)
    THEN (CHOOSE i \in 1..Len(subgoals) :
            /\ subgoals[i].id = node
            /\ \A j \in (i + 1)..Len(subgoals) : subgoals[j].id # node)
    ELSE 0

RECURSIVE dfs(_, _, _, _)
RECURSIVE dfs_neighbours(_, _, _, _, _)

\* the loop over the neighbours of node in dfs (planner.py 231-236)
dfs_neighbours(subgoals, node, todo, visited, rec_stack) ==
    IF todo = {} THEN [cycle |-> FALSE, visited |-> visited]
    ELSE LET neighbor == CHOOSE n \in todo : TRUE
         IN  IF neighbor \notin visited
             THEN LET r == dfs(subgoals, neighbor, visited, rec_stack)
                  IN  IF r.cycle THEN r
                      ELSE dfs_neighbours(subgoals, node, todo \ {neighbor}, r.visited,
                                          rec_stack)
             ELSE IF neighbor \in rec_stack THEN [cycle |-> TRUE, visited |-> visited]
             ELSE dfs_neighbours(subgoals, node, todo \ {neighbor}, visited, rec_stack)

\* dfs(node) of _has_cycle (planner.py 227-239)
dfs(subgoals, node, visited, rec_stack) ==
    LET i == adjacent(subgoals, node)
    IN  dfs_neighbours(subgoals, node, IF i = 0 THEN {} ELSE subgoals[i].dependencies,
                       visited \cup {node}, rec_stack \cup {node})

RECURSIVE has_cycle_from(_, _, _)

\* the loop over the subgoals in _has_cycle (planner.py 241-246)
has_cycle_from(subgoals, i, visited) ==
    IF i > Len(subgoals) THEN FALSE
    ELSE IF subgoals[i].id \in visited THEN has_cycle_from(subgoals, i + 1, visited)
    ELSE LET r == dfs(subgoals, subgoals[i].id, visited, {})
         IN  r.cycle \/ has_cycle_from(subgoals, i + 1, r.visited)

has_cycle_never(subgoals) == FALSE

\* _has_cycle (planner.py 221-246)
has_cycle(subgoals) == has_cycle_from(subgoals, 1, {})

\* _validate_plan (planner.py 182-219): TRUE when it raises ValueError
validate_plan_raises(subgoals, plan_cost) ==
    \/ subgoals = <<>>
    \/ Len(subgoals) > max_subgoals
    \/ Len(subgoals) # Cardinality(ids_of(subgoals))
    \/ \E i \in 1..Len(subgoals) : ~(subgoals[i].dependencies \subseteq ids_of(subgoals))
    \/ has_cycle(subgoals)
    \/ plan_cost > max_estimated_cost

\* _create_fallback_plan (planner.py 248-269)
task_fallback_plan ==
    [subgoals |-> <<[id |-> "fallback_1", dependencies |-> {}]>>, fallback |-> TRUE]

\* create_plan (planner.py 73-155)
task_create_plan(answer) ==
    IF answer.kind # "plan" THEN task_fallback_plan
    ELSE IF validate_plan_raises(answer.subgoals, answer.estimated_cost)
    THEN task_fallback_plan
    ELSE [subgoals |-> answer.subgoals, fallback |-> FALSE]

TaskPlanInit ==
    /\ EngineIdle
    /\ CacheSizeIdle
    /\ PlannerIdle
    /\ FileIdle
    /\ ManagerIdle
    /\ TimeoutIdle
    /\ ValidationIdle
    /\ ReplanIdle
    /\ CacheIdle
    /\ MemoryIdle
    /\ SnapshotIdle
    /\ PoolIdle
    /\ InitIdle
    /\ CommunityIdle
    /\ ExecutorIdle
    /\ BatchIdle
    /\ taskplan_pc = "created"
    /\ llm_plan \in LlmPlans
    /\ task_plan = None

TaskPlannerCreatePlan ==
    /\ taskplan_pc = "created"
    /\ task_plan' = task_create_plan(llm_plan)
    /\ taskplan_pc' = "returned"
    /\ UNCHANGED <<llm_plan, outside_taskplan>>

TaskPlanNext == TaskPlannerCreatePlan

TaskPlanSpec == TaskPlanInit /\ [][TaskPlanNext]_vars

\* the subgoals can be put in an order in which every subgoal comes after the
\* subgoals it depends on
Acyclic(subgoals) ==
    \E rank \in [ids_of(subgoals) -> 1..Len(subgoals)] :
        \A i \in 1..Len(subgoals) :
            \A dep \in subgoals[i].dependencies \cap ids_of(subgoals) :
                rank[dep] < rank[subgoals[i].id]

WellFormed(subgoals) ==
    /\ Len(subgoals) >= 1
    /\ Cardinality(ids_of(subgoals)) = Len(subgoals)
    /\ \A i \in 1..Len(subgoals) : subgoals[i].dependencies \subseteq ids_of(subgoals)
    /\ Acyclic(subgoals)

CyclicPlanReplaced ==
    /\ taskplan_pc = "returned"
    /\ task_plan.fallback
    /\ llm_plan.kind = "plan"
    /\ Len(llm_plan.subgoals) = 3
    /\ Cardinality(ids_of(llm_plan.subgoals)) = 3
    /\ \A i \in 1..3 : /\ Cardinality(llm_plan.subgoals[i].dependencies) = 1
                       /\ llm_plan.subgoals[i].id \notin llm_plan.subgoals[i].dependencies
    /\ llm_plan.estimated_cost = 1

\* C38: under max_iterations = N > 0 a run yields at most N step_start updates
C38_AtMostMaxIterationsSteps ==
    limits.max_iterations > 0 =>
        Cardinality(UpdateTypes("step_start")) <= limits.max_iterations

\* a run under max_iterations = 2 has dispatched two steps, and the handling
\* of one of them raised
C38_Witness ==
    /\ limits.max_iterations = 2
    /\ Cardinality(UpdateTypes("step_start")) = 2
    /\ UpdateTypes("step_error") # {}

\* ------------------------------------------- the sizes of the tool caches
\* Successful tool steps, one after the other: the result of each is stored
\* by the registry (_add_to_cache) and then by the agent.
CacheKeys == {"k1", "k2", "k3", "k4"}

CacheMaxima == [max_cache_size : {1, 2, 3}, max_size : {1, 2, 3}]

CacheSizeInit ==
    /\ EngineIdle
    /\ PlannerIdle
    /\ FileIdle
    /\ ManagerIdle
    /\ TimeoutIdle
    /\ ValidationIdle
    /\ ReplanIdle
    /\ CacheIdle
    /\ MemoryIdle
    /\ SnapshotIdle
    /\ PoolIdle
    /\ InitIdle
    /\ CommunityIdle
    /\ ExecutorIdle
    /\ BatchIdle
    /\ TaskPlanIdle
    /\ size_pc = "open"
    /\ cache_limits \in CacheMaxima
    /\ agent_cache = <<>>
    /\ registry_cache = <<>>
    /\ cache_clock = 0
    /\ inserted_keys = {}

\* a tool step succeeds without a hit in the agent's cache: the registry
\* stores the result unless it holds it (base.py 658-662, 732-754), then the
\* agent stores it (agent.py 717-734)
InsertResult ==
    /\ size_pc = "open"
    /\ \E key \in CacheKeys :
          /\ key \notin Keys(agent_cache)
          /\ registry_cache' = IF key \in Keys(registry_cache) THEN registry_cache
                                ELSE add_to_cache_sized(registry_cache, key, "a",
                                                        cache_limits.max_size,
                                                        cache_clock)
          /\ agent_cache' = tool_cache_insert_sized(agent_cache, key, "a",
                                                    cache_limits.max_cache_size,
                                                    cache_clock)
          /\ inserted_keys' = inserted_keys \cup {key}
    /\ UNCHANGED <<size_pc, cache_limits, cache_clock, outside_cachesize>>

\* a second passes
CacheTick ==
    /\ size_pc = "open"
    /\ cache_clock < MaxClock
    /\ cache_clock' = cache_clock + 1
    /\ UNCHANGED <<size_pc, cache_limits, agent_cache, registry_cache, inserted_keys,
                   outside_cachesize>>

CacheSizeNext ==
    \/ InsertResult
    \/ CacheTick

CacheSizeSpec == CacheSizeInit /\ [][CacheSizeNext]_vars

\* C39: the agent's tool cache never holds more than max_cache_size entries
\* and the registry's cache never more than max_size
C39_CachesWithinMaximum ==
    size_pc = "open" =>
        /\ Len(agent_cache) <= cache_limits.max_cache_size
        /\ Len(registry_cache) <= cache_limits.max_size

\* both caches are full after more results were inserted than either holds
C39_Witness ==
    /\ size_pc = "open"
    /\ Len(agent_cache) = cache_limits.max_cache_size
    /\ Len(registry_cache) = cache_limits.max_size
    /\ Cardinality(inserted_keys) > cache_limits.max_cache_size
    /\ Cardinality(inserted_keys) > cache_limits.max_size

====
